---- MODULE Spec2Model ----
(***************************************************************************)
(* Verification model of libngstore (nextgis_datastore):                   *)
(*   - Table: feature / attachment CRUD, edit-history log compaction,      *)
(*     change notifications, batch mode, the dataset SQL mutex;            *)
(*   - Table::copyRows and Dataset::paste with name normalisation.         *)
(* The feature store (GDAL/OGR) is an external collaborator: its answers   *)
(* (accept / reject, the error text, the id it assigns) are inputs drawn   *)
(* with \E.  Calls on the side tables of the additions store (attachment   *)
(* rows, edit-history rows) are taken to succeed when their row exists.    *)
(***************************************************************************)
EXTENDS Integers, Sequences, FiniteSets, TLC

\* ---------------------------------------------------------------- bounds
MaxFid == 2        \* feature ids are 1..MaxFid
MaxAid == 1
MaxLog == 2
MaxBatch == 1      \* nesting depth of batch mode
MaxRows == 2       \* rows of the source table of copyRows / paste
MaxTaken == 2      \* small numbers of children already holding the name
MaxPastes == 1     \* calls of Dataset::paste in one run
MaxLayers == 3      \* layers the live store holds at a time
MaxProps == 2       \* rows of the metadata table
MaxThreads == 2     \* threads that call executeSQL
MaxTiles == 1       \* tiles of the render layer
MaxObj == 3        \* child objects Dataset::refresh constructs in one run
MaxName == 3       \* characters of a field name
MaxNormalize == 2  \* calls of normalizeFieldName on one name
MaxItems == 2      \* items of a vector tile
MaxPoints == 5     \* points of one tile item
MaxMapCalls == 3   \* calls on the map store

\* ------------------------------------------------------------- constants
NOT_FOUND == -1
MAX_EQUAL_NAMES == 10000

CC_CREATE_FEATURE == "CC_CREATE_FEATURE"
CC_CHANGE_FEATURE == "CC_CHANGE_FEATURE"
CC_DELETE_FEATURE == "CC_DELETE_FEATURE"
CC_DELETEALL_FEATURES == "CC_DELETEALL_FEATURES"
CC_CREATE_ATTACHMENT == "CC_CREATE_ATTACHMENT"
CC_CHANGE_ATTACHMENT == "CC_CHANGE_ATTACHMENT"
CC_DELETE_ATTACHMENT == "CC_DELETE_ATTACHMENT"
CC_DELETEALL_ATTACHMENTS == "CC_DELETEALL_ATTACHMENTS"

COD_SUCCESS == "COD_SUCCESS"
COD_CANCELED == "COD_CANCELED"
COD_IN_PROCESS == "COD_IN_PROCESS"
COD_WARNING == "COD_WARNING"
COD_FINISHED == "COD_FINISHED"
COD_COPY_FAILED == "COD_COPY_FAILED"
COD_MOVE_FAILED == "COD_MOVE_FAILED"
COD_DELETE_FAILED == "COD_DELETE_FAILED"
COD_UNSUPPORTED == "COD_UNSUPPORTED"

Fids == 1..MaxFid
Aids == 1..MaxAid

\* the name of the table the handlers act on
TableName == "t"
NG_PREFIX == "nga_"
ATTACH_SUFFIX == "attachments"
HISTORY_SUFFIX == "editlog"
OVR_SUFFIX == "overviews"

VARIABLES
    \* ---- Table / Dataset state
    m_layer,            \* feature ids stored in the table's layer
    m_attTable,         \* Table::m_attTable, the cached handle: "null", "valid", "dangling"
    attRows,            \* rows of the attachments side table: [aid, fid]
    nextAid,            \* next id the attachments table assigns
    m_editHistoryTable, \* rows of the edit-history side table, in scan order
    m_saveEditHistory,  \* Table::m_saveEditHistory: NOT_FOUND, 0 or 1
    historyProperty,    \* stored value of the LOG_EDIT_HISTORY property
    isDatabase,         \* Filter::isDatabase(type()): additions store is the primary store
    batchCounter,       \* nesting count of batch mode of the owning dataset
    createPending,      \* feature ids whose last edit-log activity is a logged create-feature
    attCreatePending,   \* <<fid, aid>> whose last edit-log activity is a logged create-attachment
    last,               \* what the last Table call did
    \* ---- copyRows / paste state
    pc,                 \* where Dataset::paste stands: "idle", "copy" (inside copyRows), "done"
    srcType,            \* type of the pasted child: "table", "featureclass", "raster"
    srcRows,            \* geometry type of each source row, in scan order
    srcExists,          \* the source object has not been destroyed
    dstLayers,          \* layers created in the destination store: name -> copied rows
    children,           \* names of the destination dataset's children (m_children)
    paste,              \* the running or last Dataset::paste call
    \* ---- Dataset::refresh state
    storeLayers,        \* layers of the live store (m_DS), in GetLayer order: [name, geom]
    m_children,         \* Dataset::m_children, in order: [name, obj, class]
    m_childrenLoaded,   \* Dataset::m_childrenLoaded
    nextObj,            \* identity the next constructed child object gets
    refreshed,          \* the Dataset::refresh call just made, while the store is as it saw it
    \* ---- Dataset properties
    m_metadata,         \* Dataset::m_metadata: "null" or "table"
    metaRows,           \* rows [key, value] of the metadata table, in scan order
    propCall,           \* the last setProperty / property call and its answer
    \* ---- Dataset::executeSQL state
    m_DS,               \* Dataset::m_DS: "null" or "opened"
    m_executeSQLMutex,  \* thread that holds Dataset::m_executeSQLMutex, 0 when free
    sqlThreads,         \* per thread: where its executeSQL call stands, and its answer
    \* ---- files of the dataset
    files,              \* which of the dataset's files exist on disk
    destroyCall,        \* the Dataset::destroy call just made
    mainStore,          \* names of the layers of m_DS
    addsStore,          \* names of the layers of a separate additions store (m_addsDS)
    tableDestroyCall,   \* the Table::destroy or side-table create call just made
    \* ---- tile cache of a render layer
    m_tiles,            \* GlRenderLayer::m_tiles: tile key -> "absent", "empty", "data"
    m_dataMutex,        \* thread that holds GlRenderLayer::m_dataMutex, 0 when free
    m_visible,          \* Layer::m_visible
    tileThreads,        \* per thread: where its fill / draw / free call stands
    tileCall,           \* the fill / draw / free call that returned last
    sentinels,          \* keys a fill stored the empty sentinel under, not freed or refilled since
    m_style,            \* name of the layer's style (GlFeatureLayer::m_style)
    tileStyle,          \* tile key -> the style its cached buffers were built with, "none" without buffers
    \* ---- field names
    fieldName,          \* a field name of a source table, as a sequence of characters
    normalized,         \* what normalizeFieldName returned, call after call
    \* ---- tessellation of a vector tile
    fillTile,           \* items of the VectorTile handed to fillPoints / fillLines / fillPolygons
    m_hideFIDs,         \* GlFeatureLayer::m_hideFIDs
    m_selectedFIDs,     \* GlSelectableFeatureLayer::m_selectedFIDs
    fillStyle,          \* the layer's style: type, name, cap and join type
    filled,             \* the buffers the fill function called last returned
    \* ---- threads on the mutexes of a table and its dataset
    m_featureMutex,     \* thread that holds Table::m_featureMutex, 0 when free
    lockThreads,        \* per thread: the table operation it runs and where it stands
    \* ---- the map store
    m_maps,             \* MapStore::m_maps: slot -> map held, 0 for an empty pointer
    nextMap,            \* the next map object to be constructed
    mapCalls,           \* calls made on the map store
    mapCall             \* the call on the map store that returned last

tableVars == <<m_layer, m_attTable, attRows, nextAid, m_editHistoryTable,
               m_saveEditHistory, historyProperty, isDatabase, batchCounter,
               createPending, attCreatePending, last>>
pasteVars == <<pc, srcType, srcRows, srcExists, dstLayers, children, paste>>
refreshVars == <<storeLayers, m_children, m_childrenLoaded, nextObj, refreshed>>
propVars == <<m_metadata, metaRows, propCall>>
sqlVars == <<m_DS, m_executeSQLMutex, sqlThreads>>
fileVars == <<files, destroyCall, mainStore, addsStore, tableDestroyCall>>
tileVars == <<m_tiles, m_dataMutex, m_visible, tileThreads, tileCall, sentinels,
              m_style, tileStyle>>
nameVars == <<fieldName, normalized>>
fillVars == <<fillTile, m_hideFIDs, m_selectedFIDs, fillStyle, filled>>
lockVars == <<m_featureMutex, lockThreads>>
mapVars == <<m_maps, nextMap, mapCalls, mapCall>>
vars == <<tableVars, pasteVars, refreshVars, propVars, sqlVars, fileVars, tileVars, nameVars, fillVars, lockVars, mapVars>>
exceptTable == <<pasteVars, refreshVars, propVars, sqlVars, fileVars, tileVars, nameVars, fillVars, lockVars, mapVars>>
exceptPaste == <<tableVars, refreshVars, propVars, sqlVars, fileVars, tileVars, nameVars, fillVars, lockVars, mapVars>>
exceptRefresh == <<tableVars, pasteVars, propVars, sqlVars, fileVars, tileVars, nameVars, fillVars, lockVars, mapVars>>
exceptProps == <<tableVars, pasteVars, refreshVars, sqlVars, fileVars, tileVars, nameVars, fillVars, lockVars, mapVars>>
exceptSql == <<tableVars, pasteVars, refreshVars, propVars, fileVars, tileVars, nameVars, fillVars, lockVars, mapVars>>
exceptFiles == <<tableVars, pasteVars, refreshVars, propVars, sqlVars, tileVars, nameVars, fillVars, lockVars, mapVars>>
exceptTiles == <<tableVars, pasteVars, refreshVars, propVars, sqlVars, fileVars, nameVars, fillVars, lockVars, mapVars>>
exceptNames == <<tableVars, pasteVars, refreshVars, propVars, sqlVars, fileVars, tileVars, fillVars, lockVars, mapVars>>
exceptLocksSql == <<tableVars, pasteVars, refreshVars, propVars, fileVars, tileVars, nameVars,
                    fillVars, mapVars>>
exceptFill == <<tableVars, pasteVars, refreshVars, propVars, sqlVars, fileVars, tileVars, nameVars, lockVars, mapVars>>
exceptLocks == <<tableVars, pasteVars, refreshVars, propVars, sqlVars, fileVars, tileVars, nameVars, fillVars, mapVars>>
exceptMaps == <<tableVars, pasteVars, refreshVars, propVars, sqlVars, fileVars, tileVars, nameVars, fillVars, lockVars>>


\* ====================================================== the edit-history log
\* A row of the edit-history table (FEATURE_ID_FIELD, ATTACH_FEATURE_ID_FIELD,
\* OPERATION_FIELD).  NullOp stands for the empty FeaturePtr.
NullOp == [fid |-> NOT_FOUND, aid |-> NOT_FOUND, code |-> ""]

\* Dataset::attachmentsTableName / historyTableName: nga_<table>_<suffix>
attachmentsTableName(name) == NG_PREFIX \o name \o "_" \o ATTACH_SUFFIX
historyTableName(name) == NG_PREFIX \o name \o "_" \o HISTORY_SUFFIX
overviewsTableName(name) == NG_PREFIX \o name \o "_" \o OVR_SUFFIX

\* rows of the log with FEATURE_ID_FIELD = fid, in scan order
\* (SetAttributeFilter + GetNextFeature loop)
FeaturesOf(log, fid) == SelectSeq(log, LAMBDA r : r.fid = fid)

\* index in log of the first row for fid whose attachment id is aid, 0 if none
FirstAttRow(log, fid, aid) ==
    LET hits == {i \in 1..Len(log) : log[i].fid = fid /\ log[i].aid = aid}
    IN IF hits = {} THEN 0 ELSE CHOOSE i \in hits : \A j \in hits : i <= j

RemoveAt(log, i) == [j \in 1..(Len(log) - 1) |-> IF j < i THEN log[j] ELSE log[j + 1]]

\* Dataset::clearEditHistoryTable -> deleteFeatures(historyTableName): DELETE from <table>
clearEditHistoryTable(log) == << >>

LogDeleteAllKeepsLog(log, op) == Append(log, op)

\* code == CC_DELETEALL_FEATURES
LogDeleteAllFeatures(log, op) == Append(clearEditHistoryTable(log), op)

\* code == CC_DELETEALL_ATTACHMENTS
LogDeleteAllAttachments(log, op) ==
    IF op.fid = NOT_FOUND THEN log
    ELSE Append(SelectSeq(log, LAMBDA r : ~(r.fid = op.fid /\ r.aid # -1)), op)

\* "Check delete all": DELETE ... WHERE operation = CC_DELETEALL_FEATURES
PurgeDeleteAll(log) == SelectSeq(log, LAMBDA r : r.code # CC_DELETEALL_FEATURES)

PurgeDeleteAllAttachmentsNone(log, fid) == log

\* DELETE ... WHERE operation = CC_DELETEALL_ATTACHMENTS AND fid = <fid>
PurgeDeleteAllAttachments(log, fid) ==
    SelectSeq(log, LAMBDA r : ~(r.code = CC_DELETEALL_ATTACHMENTS /\ r.fid = fid))

\* code == CC_CREATE_FEATURE || code == CC_CREATE_ATTACHMENT
LogCreate(log, op) == IF op.fid = NOT_FOUND THEN log ELSE Append(log, op)

LogDeleteFeatureKeepsRows(log, op) ==
    IF op.fid = NOT_FOUND THEN log ELSE Append(log, op)

LogDeleteFeatureKeepsAttachments(log, op) ==
    IF op.fid = NOT_FOUND THEN log
    ELSE Append(SelectSeq(log, LAMBDA r : r.fid # op.fid \/ r.aid # NOT_FOUND), op)

LogDeleteFeatureAlways(log, op) ==
    IF op.fid = NOT_FOUND THEN log
    ELSE Append(SelectSeq(log, LAMBDA r : r.fid # op.fid), op)

\* code == CC_DELETE_FEATURE
LogDeleteFeature(log, op) ==
    IF op.fid = NOT_FOUND THEN log
    ELSE LET features == FeaturesOf(log, op.fid)
             purged == IF features # << >>
                       THEN SelectSeq(log, LAMBDA r : r.fid # op.fid)
                       ELSE log
         IN IF \E i \in 1..Len(features) : features[i].code = CC_CREATE_FEATURE
            THEN purged                       \* created and then deleted - nop
            ELSE Append(purged, op)

LogDeleteAttachmentRewrite(log, op) ==
    IF op.fid = NOT_FOUND \/ op.aid = NOT_FOUND THEN log
    ELSE LET i == FirstAttRow(log, op.fid, op.aid)
         IN IF i = 0 THEN Append(log, op)
            ELSE [log EXCEPT ![i].code = op.code]

LogDeleteAttachmentAppends(log, op) ==
    IF op.fid = NOT_FOUND \/ op.aid = NOT_FOUND THEN log ELSE Append(log, op)

\* code == CC_DELETE_ATTACHMENT
LogDeleteAttachment(log, op) ==
    IF op.fid = NOT_FOUND \/ op.aid = NOT_FOUND THEN log
    ELSE LET i == FirstAttRow(log, op.fid, op.aid)
         IN IF i = 0 THEN Append(log, op)
            ELSE IF log[i].code = CC_CREATE_ATTACHMENT THEN RemoveAt(log, i)
            ELSE [log EXCEPT ![i].code = op.code]

LogChangeFeatureAlways(log, op) ==
    IF op.fid = NOT_FOUND THEN log ELSE Append(log, op)

\* code == CC_CHANGE_FEATURE
LogChangeFeature(log, op) ==
    IF op.fid = NOT_FOUND THEN log
    ELSE IF FeaturesOf(log, op.fid) # << >> THEN log
    ELSE Append(log, op)

\* code == CC_CHANGE_ATTACHMENT
LogChangeAttachment(log, op) ==
    IF op.fid = NOT_FOUND \/ op.aid = NOT_FOUND THEN log
    ELSE IF FirstAttRow(log, op.fid, op.aid) # 0 THEN log
    ELSE Append(log, op)

\* Table::logEditOperation
logEditOperation(log, op) ==
    IF op = NullOp THEN log
    ELSE IF op.code = CC_DELETEALL_FEATURES THEN LogDeleteAllFeatures(log, op)
    ELSE IF op.code = CC_DELETEALL_ATTACHMENTS THEN LogDeleteAllAttachments(log, op)
    ELSE LET log1 == PurgeDeleteAll(log)
         IN IF op.code \in {CC_CREATE_ATTACHMENT, CC_CHANGE_ATTACHMENT} /\ op.fid = NOT_FOUND
            THEN log1
            ELSE LET log2 == IF op.code \in {CC_CREATE_ATTACHMENT, CC_CHANGE_ATTACHMENT}
                             THEN PurgeDeleteAllAttachments(log1, op.fid)
                             ELSE log1
                 IN CASE op.code \in {CC_CREATE_FEATURE, CC_CREATE_ATTACHMENT} -> LogCreate(log2, op)
                      [] op.code = CC_DELETE_FEATURE -> LogDeleteFeature(log2, op)
                      [] op.code = CC_DELETE_ATTACHMENT -> LogDeleteAttachment(log2, op)
                      [] op.code = CC_CHANGE_FEATURE -> LogChangeFeature(log2, op)
                      [] op.code = CC_CHANGE_ATTACHMENT -> LogChangeAttachment(log2, op)
                      [] OTHER -> log2

\* Table::deleteEditOperation: DELETE ... WHERE fid = op.fid AND aid = op.aid
deleteEditOperation(log, fid, aid) ==
    SelectSeq(log, LAMBDA r : ~(r.fid = fid /\ r.aid = aid))


\* ================================================================== Table
\* answers of the feature store to one call: accepted, or rejected with the
\* text CPLGetLastErrorMsg() then returns (possibly none)
StoreOutcomes == {[ok |-> TRUE, err |-> ""], [ok |-> FALSE, err |-> ""],
                  [ok |-> FALSE, err |-> "store error"]}

\* errorMessage(const char *fmt, ...) of util/error.cpp
errorMessage(fmt) == IF fmt = "" THEN TRUE ELSE FALSE

\* Dataset::lockExecuteSql on the (recursive) SQL mutex: the new hold count
lockExecuteSql(depth, lock) == IF lock THEN depth + 1 ELSE depth - 1

\* DatasetExecuteSQLLockHolder: acquires in its constructor, releases at scope exit
HolderEnter(depth) == lockExecuteSql(depth, TRUE)

\* Dataset::isBatchOperation
isBatchOperation == batchCounter > 0

\* Table::saveEditHistory, the value m_saveEditHistory has after the call
saveEditHistory ==
    IF m_saveEditHistory = NOT_FOUND
    THEN (IF historyProperty = "ON" THEN 1 ELSE 0)
    ELSE m_saveEditHistory

\* Table::logEditFeature; fid / aid are NOT_FOUND for an empty feature pointer
logEditFeature(fid, aid, code) ==
    IF saveEditHistory # 1 THEN NullOp
    ELSE [fid |-> fid, aid |-> aid, code |-> code]

\* m_layer->GetFeature(fid)->GetFID(), NOT_FOUND when the layer has no such feature
GetFeature(layer, fid) == IF fid \in layer THEN fid ELSE NOT_FOUND

\* Notify::instance().onNotify(...), with the hold count of the SQL mutex at the call
Notification(code, fid, depth) == [code |-> code, fid |-> fid, locked |-> depth > 0]

NoCall == [op |-> "none", fid |-> NOT_FOUND, aid |-> NOT_FOUND,
           rejected |-> FALSE, err |-> "", result |-> TRUE, batch |-> FALSE,
           logged |-> NullOp, afterCreate |-> FALSE, notified |-> << >>]

\* the features whose last edit-log activity is a logged create-feature, once
\* logEditOperation(op) has run
TrackOp(op) ==
    IF op = NullOp \/ (op.fid = NOT_FOUND /\ op.code # CC_DELETEALL_FEATURES) THEN createPending
    ELSE IF op.code = CC_DELETEALL_FEATURES THEN {}
    ELSE IF op.code = CC_CREATE_FEATURE THEN createPending \cup {op.fid}
    ELSE createPending \ {op.fid}

\* the attachments whose last edit-log activity is a logged create-attachment
TrackAttOp(op) ==
    IF op = NullOp \/ (op.fid = NOT_FOUND /\ op.code # CC_DELETEALL_FEATURES)
    THEN attCreatePending
    ELSE IF op.code = CC_DELETEALL_FEATURES THEN {}
    ELSE IF op.code \in {CC_DELETE_FEATURE, CC_DELETEALL_ATTACHMENTS}
         THEN {k \in attCreatePending : k[1] # op.fid}
    ELSE IF op.code = CC_CREATE_ATTACHMENT THEN attCreatePending \cup {<<op.fid, op.aid>>}
    ELSE IF op.code \in {CC_CHANGE_ATTACHMENT, CC_DELETE_ATTACHMENT}
         THEN attCreatePending \ {<<op.fid, op.aid>>}
    ELSE attCreatePending

\* the part of a handler that calls logEditOperation(op), op possibly empty
Logged(op, callsSaveEditHistory) ==
    /\ m_editHistoryTable' = logEditOperation(m_editHistoryTable, op)
    /\ Len(m_editHistoryTable') <= MaxLog
    /\ createPending' = TrackOp(op)
    /\ attCreatePending' = TrackAttOp(op)
    /\ m_saveEditHistory' = IF callsSaveEditHistory THEN saveEditHistory ELSE m_saveEditHistory

NotLogged ==
    UNCHANGED <<m_editHistoryTable, createPending, attCreatePending, m_saveEditHistory>>

\* Table::insertFeature; fid is the id the store gives the new feature
insertFeature(fid, logEdits, out) ==
    LET depth == HolderEnter(0)
        opFeature == IF logEdits THEN logEditFeature(fid, NOT_FOUND, CC_CREATE_FEATURE)
                     ELSE NullOp
        call == [NoCall EXCEPT !.op = "insertFeature", !.fid = fid,
                               !.batch = isBatchOperation,
                               !.afterCreate = fid \in createPending]
    IN /\ fid \notin m_layer
       /\ IF out.ok
          THEN /\ m_layer' = m_layer \cup {fid}
               /\ Logged(opFeature, logEdits)
               /\ last' = [call EXCEPT !.logged = opFeature,
                             !.notified = IF ~isBatchOperation
                                          THEN <<Notification(CC_CREATE_FEATURE, fid, depth)>>
                                          ELSE << >>,
                             !.result = TRUE]
          ELSE /\ NotLogged
               /\ last' = [call EXCEPT !.rejected = TRUE, !.err = out.err,
                                       !.result = errorMessage(out.err)]
               /\ UNCHANGED m_layer
       /\ UNCHANGED <<m_attTable, attRows, nextAid, historyProperty, isDatabase, batchCounter>>

\* Table::updateFeature
updateFeature(fid, logEdits, out) ==
    LET depth == HolderEnter(0)
        opFeature == IF logEdits THEN logEditFeature(fid, NOT_FOUND, CC_CHANGE_FEATURE)
                     ELSE NullOp
        call == [NoCall EXCEPT !.op = "updateFeature", !.fid = fid,
                               !.batch = isBatchOperation,
                               !.afterCreate = fid \in createPending]
    IN /\ out.ok => fid \in m_layer
       /\ IF out.ok
          THEN /\ Logged(opFeature, logEdits)
               /\ last' = [call EXCEPT !.logged = opFeature,
                             !.notified = IF ~isBatchOperation
                                          THEN <<Notification(CC_CHANGE_FEATURE, fid, depth)>>
                                          ELSE << >>,
                             !.result = TRUE]
          ELSE /\ NotLogged
               /\ last' = [call EXCEPT !.rejected = TRUE, !.err = out.err,
                                       !.result = errorMessage(out.err)]
       /\ UNCHANGED <<m_layer, m_attTable, attRows, nextAid, historyProperty, isDatabase,
                      batchCounter>>


\* the table the SQL of Table::deleteAttachments names: <table>_<attachments>
attachmentsSqlName(name) == name \o "_" \o ATTACH_SUFFIX

\* DELETE FROM <table>_attachments WHERE afid = <fid>, run by Dataset::executeSQL on
\* the primary store: it removes rows only if that is the attachments table
sqlDeleteAttachments(rows, fid) ==
    IF isDatabase /\ attachmentsSqlName(TableName) = attachmentsTableName(TableName)
    THEN {r \in rows : r.fid # fid}
    ELSE rows

\* the edit-log operation Table::deleteAttachments(fid, logEdits) logs on layer
deleteAttachmentsOp(layer, fid, logEdits) ==
    IF logEdits
    THEN logEditFeature(GetFeature(layer, fid), NOT_FOUND, CC_DELETEALL_ATTACHMENTS)
    ELSE NullOp

\* the notification of Table::deleteFeature
deleteFeatureNotify(id, depth) == <<Notification(CC_DELETE_FEATURE, id, depth)>>

\* Table::deleteFeature
deleteFeature(id, logEdits, out) ==
    LET logFeature == IF saveEditHistory = 1 /\ logEdits
                      THEN logEditFeature(GetFeature(m_layer, id), NOT_FOUND, CC_DELETE_FEATURE)
                      ELSE NullOp
        depth == HolderEnter(0)
        layer1 == m_layer \ {id}
        attOp == deleteAttachmentsOp(layer1, id, logEdits)
        log1 == logEditOperation(m_editHistoryTable, attOp)
        call == [NoCall EXCEPT !.op = "deleteFeature", !.fid = id,
                               !.batch = isBatchOperation,
                               !.afterCreate = id \in createPending]
    IN /\ out.ok => id \in m_layer
       /\ m_saveEditHistory' = saveEditHistory
       /\ IF out.ok
          THEN /\ m_layer' = layer1
               /\ attRows' = sqlDeleteAttachments(attRows, id)
               /\ m_editHistoryTable' = IF logEdits THEN logEditOperation(log1, logFeature)
                                        ELSE log1
               /\ Len(m_editHistoryTable') <= MaxLog
               /\ createPending' = TrackOp(logFeature)
               /\ attCreatePending' = TrackAttOp(logFeature)
               /\ last' = [call EXCEPT !.logged = logFeature,
                                       !.notified = deleteFeatureNotify(id, depth),
                                       !.result = TRUE]
          ELSE /\ UNCHANGED <<m_layer, attRows, m_editHistoryTable, createPending, attCreatePending>>
               /\ last' = [call EXCEPT !.rejected = TRUE, !.err = out.err,
                                       !.result = errorMessage(out.err)]
       /\ UNCHANGED <<m_attTable, nextAid, historyProperty, isDatabase, batchCounter>>

\* Table::deleteFeatures; ok: the store ran DELETE from <table> without a failure
deleteFeatures(logEdits, ok) ==
    LET logFeature == IF logEdits
                      THEN logEditFeature(NOT_FOUND, NOT_FOUND, CC_DELETEALL_FEATURES)
                      ELSE NullOp
        \* Dataset::destroyAttachmentsTable -> destroyTable(m_DS, layer): the layer of
        \* the additions store is found among the layers of m_DS only if they are one store
        dropped == isDatabase /\ m_attTable # "null"
        call == [NoCall EXCEPT !.op = "deleteFeatures",
                               !.batch = isBatchOperation,
                               !.afterCreate = createPending # {}]
    IN IF ok
       THEN /\ m_layer' = {}
            /\ Logged(logFeature, logEdits)
            /\ last' = [call EXCEPT !.logged = logFeature,
                           !.notified = <<Notification(CC_DELETEALL_FEATURES, NOT_FOUND, 0)>>,
                           !.result = TRUE]
            /\ attRows' = IF dropped THEN {} ELSE attRows
            /\ m_attTable' = IF dropped THEN "dangling" ELSE m_attTable
            /\ UNCHANGED <<nextAid, historyProperty, isDatabase, batchCounter>>
       ELSE /\ NotLogged
            /\ last' = [call EXCEPT !.rejected = TRUE, !.result = FALSE]
            /\ UNCHANGED <<m_layer, m_attTable, attRows, nextAid, historyProperty,
                           isDatabase, batchCounter>>

\* Table::initAttachmentsTable: the handle after the call
initAttachmentsTable == IF m_attTable = "null" THEN "valid" ELSE m_attTable

\* A call through m_attTable can reach the attachments table.  The layer behind a
\* dangling handle has been dropped: such a call fails or ends the process, and in
\* both cases leaves the stores as they are.
attTableUsable == m_attTable # "dangling"

\* Table::attachments(fid): the answers the call can give in this state, each
\* the ids of the attachments listed.  Through a dangling handle the call reads
\* a dropped layer: it may end the process (ok false) or list anything.
attachments(fid) ==
    IF attTableUsable
    THEN {[ok |-> TRUE, ids |-> {r.aid : r \in {x \in attRows : x.fid = fid}}]}
    ELSE {[ok |-> ok, ids |-> ids] : ok \in BOOLEAN, ids \in SUBSET Aids}

\* Table::addAttachment; the attachments table assigns the id
addAttachment(fid, logEdits) ==
    LET aid == nextAid
        opFeature == IF logEdits
                     THEN logEditFeature(GetFeature(m_layer, fid), aid, CC_CREATE_ATTACHMENT)
                     ELSE NullOp
        call == [NoCall EXCEPT !.op = "addAttachment", !.fid = fid,
                               !.afterCreate = fid \in createPending]
    IN /\ m_attTable' = initAttachmentsTable
       /\ IF attTableUsable
          THEN /\ aid <= MaxAid
               /\ attRows' = attRows \cup {[aid |-> aid, fid |-> fid]}
               /\ nextAid' = nextAid + 1
               /\ Logged(opFeature, logEdits)
               /\ last' = [call EXCEPT !.aid = aid, !.logged = opFeature, !.result = TRUE]
          ELSE /\ NotLogged
               /\ UNCHANGED <<attRows, nextAid>>
               /\ last' = [call EXCEPT !.rejected = TRUE, !.result = FALSE]
       /\ UNCHANGED <<m_layer, historyProperty, isDatabase, batchCounter>>

\* the feature id (ATTACH_FEATURE_ID_FIELD) of attachment aid, NOT_FOUND if no such row
AttFid(aid) == IF \E r \in attRows : r.aid = aid
               THEN (CHOOSE r \in attRows : r.aid = aid).fid
               ELSE NOT_FOUND

\* Table::deleteAttachment; fileOk: File::deleteFile removed the attachment's file
deleteAttachment(aid, logEdits, fileOk) ==
    LET fid == AttFid(aid)
        exists == \E r \in attRows : r.aid = aid
        opFeature == IF logEdits
                     THEN logEditFeature(GetFeature(m_layer, fid), aid, CC_DELETE_ATTACHMENT)
                     ELSE NullOp
        call == [NoCall EXCEPT !.op = "deleteAttachment", !.fid = fid, !.aid = aid,
                               !.afterCreate = <<fid, aid>> \in attCreatePending]
    IN /\ m_attTable' = initAttachmentsTable
       /\ IF attTableUsable /\ exists
          THEN /\ attRows' = {r \in attRows : r.aid # aid}
               /\ Logged(opFeature, logEdits)
               /\ last' = [call EXCEPT !.logged = opFeature, !.result = fileOk]
          ELSE /\ NotLogged
               /\ UNCHANGED attRows
               /\ last' = [call EXCEPT !.rejected = TRUE, !.result = FALSE]
       /\ UNCHANGED <<m_layer, nextAid, historyProperty, isDatabase, batchCounter>>

\* Table::deleteAttachments
deleteAttachments(fid, logEdits) ==
    LET opFeature == deleteAttachmentsOp(m_layer, fid, logEdits)
        call == [NoCall EXCEPT !.op = "deleteAttachments", !.fid = fid,
                               !.afterCreate = fid \in createPending]
    IN /\ attRows' = sqlDeleteAttachments(attRows, fid)
       /\ Logged(opFeature, logEdits)
       /\ last' = [call EXCEPT !.logged = opFeature, !.result = TRUE]
       /\ UNCHANGED <<m_layer, m_attTable, nextAid, historyProperty, isDatabase, batchCounter>>

\* Table::updateAttachment
updateAttachment(aid, logEdits, out) ==
    LET fid == AttFid(aid)
        exists == \E r \in attRows : r.aid = aid
        opFeature == IF logEdits
                     THEN logEditFeature(GetFeature(m_layer, fid), aid, CC_CHANGE_ATTACHMENT)
                     ELSE NullOp
        call == [NoCall EXCEPT !.op = "updateAttachment", !.fid = fid, !.aid = aid,
                               !.afterCreate = <<fid, aid>> \in attCreatePending]
    IN /\ m_attTable' = initAttachmentsTable
       /\ IF attTableUsable /\ exists /\ out.ok
          THEN /\ Logged(opFeature, logEdits)
               /\ last' = [call EXCEPT !.logged = opFeature, !.result = TRUE]
          ELSE /\ NotLogged
               /\ last' = [call EXCEPT !.rejected = TRUE, !.err = out.err, !.result = FALSE]
       /\ UNCHANGED <<m_layer, attRows, nextAid, historyProperty, isDatabase, batchCounter>>

\* Table::setProperty(LOG_EDIT_HISTORY_KEY, value, NG_ADDITIONS_KEY) -> checkSetProperty.
\* The stored property is read only while m_saveEditHistory is NOT_FOUND, which
\* this call ends.
setSaveEditHistory(on) ==
    LET prevValue == m_saveEditHistory
        newValue == IF on THEN 1 ELSE 0
        clear == prevValue # newValue /\ prevValue = 1
    IN /\ m_saveEditHistory' = newValue
       /\ m_editHistoryTable' = IF clear THEN clearEditHistoryTable(m_editHistoryTable)
                                ELSE m_editHistoryTable
       /\ createPending' = IF clear THEN {} ELSE createPending
       /\ attCreatePending' = IF clear THEN {} ELSE attCreatePending
       /\ last' = [NoCall EXCEPT !.op = "setProperty"]
       /\ UNCHANGED <<m_layer, m_attTable, attRows, nextAid, historyProperty, isDatabase,
                      batchCounter>>

\* Table::deleteEditOperation(op) for a row op of editOperations()
deleteEditOperationCall(i) ==
    LET op == m_editHistoryTable[i]
    IN /\ m_editHistoryTable' = deleteEditOperation(m_editHistoryTable, op.fid, op.aid)
       /\ createPending' = IF op.aid = NOT_FOUND THEN createPending \ {op.fid}
                           ELSE createPending
       /\ attCreatePending' = attCreatePending \ {<<op.fid, op.aid>>}
       /\ last' = [NoCall EXCEPT !.op = "deleteEditOperation", !.fid = op.fid, !.aid = op.aid]
       /\ UNCHANGED <<m_layer, m_attTable, attRows, nextAid, m_saveEditHistory,
                      historyProperty, isDatabase, batchCounter>>

\* DatasetBatchOperationHolder / Dataset::startBatchOperation, stopBatchOperation
startBatchOperation ==
    /\ batchCounter < MaxBatch
    /\ batchCounter' = batchCounter + 1
    /\ last' = [NoCall EXCEPT !.op = "startBatchOperation"]
    /\ UNCHANGED <<m_layer, m_attTable, attRows, nextAid, m_editHistoryTable,
                   m_saveEditHistory, historyProperty, isDatabase, createPending, attCreatePending>>

stopBatchOperation ==
    /\ batchCounter > 0
    /\ batchCounter' = batchCounter - 1
    /\ last' = [NoCall EXCEPT !.op = "stopBatchOperation"]
    /\ UNCHANGED <<m_layer, m_attTable, attRows, nextAid, m_editHistoryTable,
                   m_saveEditHistory, historyProperty, isDatabase, createPending, attCreatePending>>

\* ================================================= Dataset::paste, copyRows
METHADATA_TABLE_NAME == "nga_meta"

forbiddenChars == {":", "@", "#", "%", "^", "&", "*", "!", "$", "(", ")", "+", "-",
                   "?", "=", "/", "\\", "\"", "'", "[", "]", ","}

\* names come as sequences of characters; Join gives the string
RECURSIVE Join(_)
Join(cs) == IF cs = << >> THEN "" ELSE Head(cs) \o Join(Tail(cs))

\* replace_if(outName.begin(), outName.end(), forbiddenChar, '_')
replaceForbidden(cs) == [i \in 1..Len(cs) |-> IF cs[i] \in forbiddenChars THEN "_" ELSE cs[i]]

\* Dataset::isNameValid over the children kids
isNameValid(kids, name) ==
    /\ name \notin kids
    /\ ~(name = METHADATA_TABLE_NAME /\ isDatabase)

\* originName + "_" + CPLSPrintf("%d", nameCounter)
CandidateName(originName, nameCounter) == originName \o "_" \o ToString(nameCounter)

\* Dataset::normalizeDatasetName.  The loop tries originName, then originName_1,
\* originName_2, ... and gives up with "" when nameCounter reaches MAX_EQUAL_NAMES.
\* (normalize() transliterates; it keeps the ASCII names used here.)
normalizeDatasetName(kids, name) ==
    LET originName == IF name = << >> THEN "new_dataset" ELSE Join(replaceForbidden(name))
        tried == 1..(MAX_EQUAL_NAMES - 1)
    IN IF isNameValid(kids, originName) THEN originName
       ELSE IF \E n \in tried : isNameValid(kids, CandidateName(originName, n))
       THEN CandidateName(originName,
                CHOOSE n \in tried :
                    /\ isNameValid(kids, CandidateName(originName, n))
                    /\ \A m \in 1..(n - 1) : ~isNameValid(kids, CandidateName(originName, m)))
       ELSE ""

ReportNothing(at, code, answer) ==
    [kind |-> "none", at |-> at, code |-> code, answer |-> answer, row |-> 0]

\* one call of the progress callback made by copyRows, and its answer
Report(at, code, answer) ==
    [kind |-> "progress", at |-> at, code |-> code, answer |-> answer, row |-> 0]
\* one insertFeature of copyRows: the source row, and whether the store took it
Inserted(row, ok) ==
    [kind |-> "insert", at |-> "row", code |-> "", answer |-> ok, row |-> row]

NoPaste == [op |-> "none", count |-> 0, move |-> FALSE, asked |-> "", newName |-> "",
            exhausted |-> FALSE,
            dst |-> "", cursor |-> 0, batch |-> FALSE, events |-> << >>,
            created |-> {}, steps |-> << >>, result |-> "",
            filter |-> "ANY", toMulti |-> FALSE, types |-> {}]

pasteReturnDestroysAnyway(stepResult, move, destroyOk) ==
    [result |-> IF stepResult # COD_SUCCESS THEN stepResult
                ELSE IF move /\ ~destroyOk THEN COD_DELETE_FAILED ELSE COD_SUCCESS,
     destroyed |-> move /\ destroyOk]

\* how Dataset::paste returns once a create or copy step gave stepResult:
\* a result other than COD_SUCCESS is returned at once; otherwise, on a move,
\* child->destroy() decides
pasteReturn(stepResult, move, destroyOk) ==
    IF stepResult # COD_SUCCESS THEN [result |-> stepResult, destroyed |-> FALSE]
    ELSE IF move
    THEN [result |-> IF destroyOk THEN COD_SUCCESS ELSE COD_DELETE_FAILED,
          destroyed |-> destroyOk]
    ELSE [result |-> COD_SUCCESS, destroyed |-> FALSE]

\* the answers of Dataset::createFeatureClass: the layer and its fields were
\* created, CreateLayer failed, or the layer was created and CreateField failed
CreateOutcomes == {"created", "no layer", "no field"}

\* the store refuses a second layer of a name it holds; dstLayers after the call
createLayer(layers, name, outcome) ==
    IF outcome = "no layer" THEN layers
    ELSE [n \in DOMAIN layers \cup {name} |-> IF n = name THEN << >> ELSE layers[n]]

progressDeclinedIgnored(answer) == FALSE

\* if(!progress.onProgress(...)) return COD_CANCELED;
progressDeclined(answer) == ~answer

\* Dataset::paste of a table under the normalized name newName, up to the first
\* row of Table::copyRows
pasteTable(move, asked, newName, outcome, startAnswer) ==
    LET call == [NoPaste EXCEPT !.op = "paste", !.count = paste.count + 1, !.move = move,
                                !.asked = asked, !.newName = newName,
                                !.exhausted = newName = ""]
    IN /\ pc \in {"idle", "done"}
       /\ paste.count < MaxPastes
       /\ srcExists
       /\ srcType = "table"
       /\ outcome # "no layer" => newName \notin DOMAIN dstLayers
       /\ dstLayers' = createLayer(dstLayers, newName, outcome)
       /\ IF outcome = "created"
          THEN /\ pc' = "copy"
               /\ paste' = [call EXCEPT !.dst = newName, !.cursor = 1, !.batch = TRUE,
                                        !.created = {newName},
                                        !.events = <<Report("start", COD_IN_PROCESS, startAnswer)>>]
          ELSE /\ pc' = "done"
               /\ paste' = [call EXCEPT
                              !.created = IF outcome = "no field" THEN {newName} ELSE {},
                              !.steps = <<IF move THEN COD_MOVE_FAILED ELSE COD_COPY_FAILED>>,
                              !.result = IF move THEN COD_MOVE_FAILED ELSE COD_COPY_FAILED]
       /\ UNCHANGED <<srcType, srcRows, srcExists, children>>

\* what follows once copyRows has returned stepResult to Dataset::paste
copyRowsReturns(stepResult, events, destroyOk) ==
    LET ret == pasteReturn(stepResult, paste.move, destroyOk)
    IN /\ pc' = "done"
       /\ paste' = [paste EXCEPT !.events = events, !.batch = FALSE,
                                 !.steps = Append(@, stepResult), !.result = ret.result]
       /\ srcExists' = ~ret.destroyed

\* one turn of the loop of Table::copyRows
copyRow(answer, out, warnAnswer, destroyOk) ==
    LET row == paste.cursor
        events1 == Append(paste.events, Report("row", COD_IN_PROCESS, answer))
        returned == IF out.ok THEN TRUE ELSE errorMessage(out.err)
        events2 == Append(events1, Inserted(row, out.ok))
        events3 == Append(events2, Report("row", COD_WARNING, warnAnswer))
    IN /\ pc = "copy"
       /\ paste.cursor <= Len(srcRows)
       /\ IF progressDeclined(answer)
          THEN copyRowsReturns(COD_CANCELED, events1, destroyOk) /\ UNCHANGED dstLayers
          ELSE /\ dstLayers' = IF out.ok
                               THEN [dstLayers EXCEPT ![paste.dst] = Append(@, row)]
                               ELSE dstLayers
               /\ IF ~returned /\ progressDeclined(warnAnswer)
                  THEN copyRowsReturns(COD_CANCELED, events3, destroyOk)
                  ELSE /\ paste' = [paste EXCEPT !.cursor = @ + 1,
                                       !.events = IF returned THEN events2 ELSE events3]
                       /\ UNCHANGED <<pc, srcExists>>
       /\ UNCHANGED <<srcType, srcRows, children>>

\* the end of Table::copyRows once the source has no more rows
copyRowsFinish(answer, destroyOk) ==
    /\ pc = "copy"
    /\ paste.cursor > Len(srcRows)
    /\ copyRowsReturns(COD_SUCCESS, Append(paste.events, Report("finish", COD_FINISHED, answer)),
                       destroyOk)
    /\ UNCHANGED <<srcType, srcRows, dstLayers, children>>

\* geometry types of the rows of a feature class
GeometryTypes == <<"POINT", "MULTIPOINT">>

\* FeatureClass::geometryTypes: the distinct geometry types found in the source
geometryTypes(rows) ==
    SelectSeq(GeometryTypes, LAMBDA g : \E i \in 1..Len(rows) : rows[i] = g)

\* FeatureClass::geometryTypeName(type, SIMPLE): a name of the type, never empty
geometryTypeName(g) == g

\* if(toMulti && geometryType < wkbMultiPoint) newGeometryType = geometryType + 3
forceToMulti(g) == IF g = "POINT" THEN "MULTIPOINT" ELSE g

\* FeatureClass::copyFeatures: the source rows a destination layer of type g
\* receives; one layer per geometry type when the source is split
copyFeatures(rows, g, split) ==
    SelectSeq([i \in 1..Len(rows) |-> i], LAMBDA i : ~split \/ rows[i] = g)

\* the loop over geometryTypes of Dataset::paste from type number i on; st holds
\* the layers of the store and what the call has created so far
RECURSIVE pasteGeometryTypes(_, _, _, _)
pasteGeometryTypes(types, i, st, in) ==
    IF i > Len(types) THEN st
    ELSE IF in.filter # types[i] /\ in.filter # "ANY"
    THEN pasteGeometryTypes(types, i + 1, st, in)
    ELSE LET geometryType == types[i]
             split == Len(types) > 1 /\ in.filter = "ANY"
             createName == IF split THEN in.newName \o "_" \o geometryTypeName(geometryType)
                           ELSE in.newName
             newGeometryType == IF split /\ in.toMulti THEN forceToMulti(geometryType)
                                ELSE geometryType
             outcome == IF createName \in DOMAIN st.layers THEN "no layer"
                        ELSE in.create[geometryType]
             layers1 == createLayer(st.layers, createName, outcome)
             failed == IF in.move THEN COD_MOVE_FAILED ELSE COD_COPY_FAILED
         IN IF outcome # "created"
            THEN [st EXCEPT !.layers = layers1,
                            !.created = IF outcome = "no field" THEN @ \cup {createName} ELSE @,
                            !.steps = Append(@, failed), !.result = failed]
            ELSE LET result == in.copy[geometryType]
                     st1 == [st EXCEPT
                               !.layers = [layers1 EXCEPT ![createName] =
                                              IF result = COD_SUCCESS
                                              THEN copyFeatures(srcRows, geometryType, split)
                                              ELSE << >>],
                               !.created = @ \cup {createName},
                               !.types = @ \cup {<<createName, newGeometryType>>},
                               !.steps = Append(@, result)]
                 IN IF result # COD_SUCCESS THEN [st1 EXCEPT !.result = result]
                    ELSE pasteGeometryTypes(types, i + 1, st1, in)

\* Dataset::paste of a feature class under the normalized name newName
pasteFeatureClass(move, asked, newName, filter, toMulti, create, copy, destroyOk) ==
    LET in == [newName |-> newName, move |-> move, filter |-> filter, toMulti |-> toMulti,
               create |-> create, copy |-> copy]
        st == pasteGeometryTypes(geometryTypes(srcRows), 1,
                                 [layers |-> dstLayers, created |-> {}, types |-> {},
                                  steps |-> << >>, result |-> COD_SUCCESS], in)
        ret == pasteReturn(st.result, move, destroyOk)
    IN /\ pc \in {"idle", "done"}
       /\ paste.count < MaxPastes
       /\ srcExists
       /\ srcType = "featureclass"
       /\ pc' = "done"
       /\ dstLayers' = st.layers
       /\ paste' = [NoPaste EXCEPT !.op = "paste", !.count = paste.count + 1, !.move = move,
                                   !.asked = asked, !.newName = newName,
                                   !.exhausted = newName = "", !.created = st.created,
                                   !.steps = st.steps, !.result = ret.result,
                                   !.filter = filter, !.toMulti = toMulti,
                                   !.types = st.types]
       /\ srcExists' = ~ret.destroyed
       /\ UNCHANGED <<srcType, srcRows, children>>

\* Dataset::paste of a child that is neither a table nor a feature class
pasteUnsupported(move, asked, newName) ==
       /\ pc \in {"idle", "done"}
       /\ paste.count < MaxPastes
       /\ srcExists
       /\ srcType = "raster"
       /\ pc' = "done"
       /\ paste' = [NoPaste EXCEPT !.op = "paste", !.count = paste.count + 1, !.move = move,
                                   !.asked = asked, !.newName = newName,
                                   !.exhausted = newName = "",
                                   !.steps = <<COD_UNSUPPORTED>>, !.result = COD_UNSUPPORTED]
       /\ UNCHANGED <<srcType, srcRows, srcExists, dstLayers, children>>

\* ============================================================ Dataset::refresh
\* names of the elements of a sequence of layers or of children
NamesOf(seq) == {seq[i].name : i \in 1..Len(seq)}

\* names of layers of the store, as sequences of characters: three layers of
\* the user and a side table
LayerNames == {<<"A">>, <<"B">>, <<"C">>, <<"N", "g", "a", "_", "A">>}

\* constexpr int NG_PREFIX_LEN = length(NG_PREFIX)
NG_PREFIX_LEN == 4

\* tolower of the letters layer names are written with
toLower(c) == IF c = "N" THEN "n" ELSE IF c = "G" THEN "g" ELSE IF c = "A" THEN "a" ELSE c

\* EQUAL(a, b): both given as sequences of characters, compared without case
EQUAL(a, b) ==
    /\ Len(a) = Len(b)
    /\ \A i \in 1..Len(a) : toLower(a[i]) = toLower(b[i])

\* EQUALN(a, b, n): the first n characters compared without case
EQUALN(a, b, n) ==
    \A i \in 1..n : /\ i <= Len(a) /\ i <= Len(b)
                    /\ toLower(a[i]) = toLower(b[i])

\* METHADATA_TABLE_NAME and NG_PREFIX as sequences of characters
MetadataChars == <<"n", "g", "a", "_", "m", "e", "t", "a">>
PrefixChars == <<"n", "g", "a", "_">>

\* Dataset::skipFillFeatureClass: the metadata table and every nga_ table are hidden
skipFillFeatureClass(name) ==
    \/ EQUAL(name, MetadataChars)
    \/ EQUALN(name, PrefixChars, NG_PREFIX_LEN)

\* new Table(...) for a layer without geometry, new FeatureClass(...) otherwise
NewChild(layer, obj) ==
    [name |-> layer.name, obj |-> obj,
     class |-> IF layer.geom = "NONE" THEN "Table" ELSE "FeatureClass"]

\* m_children.push_back(new ...) for each layer of adds, objects numbered from obj on
RECURSIVE pushBack(_, _, _)
pushBack(kids, adds, obj) ==
    IF adds = << >> THEN kids
    ELSE pushBack(Append(kids, NewChild(Head(adds), obj)), Tail(adds), obj + 1)

\* Dataset::fillFeatureClasses: a child for every layer that is not hidden
fillFeatureClasses(kids, layers, obj) ==
    pushBack(kids, SelectSeq(layers, LAMBDA l : ~skipFillFeatureClass(l.name)), obj)

\* removeDuplicates(deleteNames, addNames): the names present in both are
\* taken out of both
removeDuplicates(deleteNames, addNames) ==
    [del |-> deleteNames \ addNames, add |-> addNames \ deleteNames]

refreshRebuildsAll(kids, layers, obj) ==
    fillFeatureClasses(<< >>, layers, obj)

\* Dataset::refresh with the children loaded: m_children after the call
refreshChildren(kids, layers, obj) ==
    LET visible == SelectSeq(layers, LAMBDA l : ~skipFillFeatureClass(l.name))
        names == removeDuplicates(NamesOf(kids), NamesOf(visible))
        kept == SelectSeq(kids, LAMBDA c : c.name \notin names.del)
    IN pushBack(kept, SelectSeq(visible, LAMBDA l : l.name \in names.add), obj)

NoRefresh == [op |-> "none", loaded |-> FALSE, before |-> << >>]

\* Dataset::refresh
refresh ==
    LET after == IF m_childrenLoaded
                 THEN refreshChildren(m_children, storeLayers, nextObj)
                 ELSE fillFeatureClasses(m_children, storeLayers, nextObj)
        made == {i \in 1..Len(after) : after[i].obj >= nextObj}
    IN /\ nextObj + Cardinality(made) <= MaxObj + 1
       /\ m_children' = after
       /\ m_childrenLoaded' = TRUE
       /\ nextObj' = nextObj + Cardinality(made)
       /\ refreshed' = [op |-> "refresh", loaded |-> m_childrenLoaded,
                        before |-> m_children]
       /\ UNCHANGED storeLayers

\* another user of the store creates a layer (m_DS->CreateLayer appends it)
storeCreateLayer(name, geom) ==
    /\ name \notin NamesOf(storeLayers)
    /\ Len(storeLayers) < MaxLayers
    /\ storeLayers' = Append(storeLayers, [name |-> name, geom |-> geom])
    /\ refreshed' = NoRefresh
    /\ UNCHANGED <<m_children, m_childrenLoaded, nextObj>>

\* another user of the store deletes its layer number i (m_DS->DeleteLayer)
storeDeleteLayer(i) ==
    /\ i \in 1..Len(storeLayers)
    /\ storeLayers' = RemoveAt(storeLayers, i)
    /\ refreshed' = NoRefresh
    /\ UNCHANGED <<m_children, m_childrenLoaded, nextObj>>

RefreshIdle ==
    /\ storeLayers = << >>
    /\ m_children = << >>
    /\ m_childrenLoaded = FALSE
    /\ nextObj = 1
    /\ refreshed = NoRefresh

\* ========================================================= Dataset properties
\* keys and values of properties; a key is a sequence of characters
PropertyKeys == {<<"k">>, <<"a", "_", "b">>, <<"a", "x", "b">>}
PropertyValues == {"v1", "v2"}
PropertyDefaults == {"d"}

\* <field> LIKE "<pattern>": _ in the pattern stands for any one character
like(text, pattern) ==
    /\ Len(text) = Len(pattern)
    /\ \A i \in 1..Len(pattern) : pattern[i] = "_" \/ pattern[i] = text[i]

\* SetAttributeFilter(key LIKE "<key>") + GetNextFeature: the first row that matches
firstLike(rows, key) ==
    LET hits == {i \in 1..Len(rows) : like(rows[i].key, key)}
    IN IF hits = {} THEN 0 ELSE CHOOSE i \in hits : \A j \in hits : i <= j

NoPropCall == [op |-> "none", key |-> << >>, value |-> "", result |-> "", stored |-> FALSE]
\* answers of setProperty are kept as text
boolText(b) == IF b THEN "true" ELSE "false"

\* Dataset::property: what the call returns
property(meta, rows, key, defaultValue) ==
    IF meta = "null" THEN defaultValue
    ELSE LET i == firstLike(rows, key)
         IN IF i # 0 THEN rows[i].value ELSE ""

\* Dataset::property(key, defaultValue)
propertyCall(key, defaultValue) ==
    /\ propCall' = [op |-> "property", key |-> key, value |-> defaultValue,
                    result |-> property(m_metadata, metaRows, key, defaultValue),
                    stored |-> \E i \in 1..Len(metaRows) : metaRows[i].key = key]
    /\ UNCHANGED <<m_metadata, metaRows>>

\* Dataset::setProperty(key, value): createOk tells whether createMetadataTable
\* gives a table, storeOk whether CreateFeature stores the row
setProperty(key, value, createOk, storeOk) ==
    LET meta == IF m_metadata = "null" /\ createOk THEN "table" ELSE m_metadata
        stores == meta # "null" /\ storeOk
    IN /\ Len(metaRows) < MaxProps
       /\ m_metadata' = meta
       /\ metaRows' = IF stores THEN Append(metaRows, [key |-> key, value |-> value])
                      ELSE metaRows
       /\ propCall' = [op |-> "setProperty", key |-> key, value |-> value,
                       result |-> boolText(meta # "null" /\ ~storeOk),
                       stored |-> stores]

PropsIdle ==
    /\ m_metadata = "null"
    /\ metaRows = << >>
    /\ propCall = NoPropCall

\* ========================================================= Dataset::executeSQL
Threads == 1..MaxThreads

SqlIdle == [pc |-> "idle", spatial |-> FALSE, result |-> "none"]

\* executeSQL entered by thread t: without an opened store it returns an empty
\* pointer; the plain overload then constructs CPLMutexHolder, the overload
\* with a spatial filter goes to m_DS->ExecuteSQL at once
executeSQLEnter(t, spatial) ==
    /\ sqlThreads[t].pc = "idle"
    /\ sqlThreads' = [sqlThreads EXCEPT ![t] =
           IF m_DS = "null" THEN [SqlIdle EXCEPT !.spatial = spatial, !.result = "null"]
           ELSE [pc |-> IF spatial THEN "query" ELSE "lock",
                 spatial |-> spatial, result |-> "none"]]
    /\ UNCHANGED <<m_DS, m_executeSQLMutex>>

\* CPLMutexHolder holder(m_executeSQLMutex): blocks until the mutex is free
executeSQLLock(t) ==
    /\ sqlThreads[t].pc = "lock"
    /\ m_executeSQLMutex = 0
    /\ m_executeSQLMutex' = t
    /\ sqlThreads' = [sqlThreads EXCEPT ![t].pc = "query"]
    /\ UNCHANGED m_DS

\* m_DS->ExecuteSQL returns layer ("null", a layer without geometry, a layer
\* with geometry); the call returns and the holder, if any, releases the mutex
executeSQLReturn(t, layer) ==
    /\ sqlThreads[t].pc = "query"
    /\ sqlThreads' = [sqlThreads EXCEPT ![t].pc = "idle",
                          ![t].result = IF layer = "null" THEN "null"
                                        ELSE IF layer = "NONE" THEN "Table"
                                        ELSE "FeatureClass"]
    /\ m_executeSQLMutex' = IF m_executeSQLMutex = t THEN 0 ELSE m_executeSQLMutex
    /\ UNCHANGED m_DS

\* Dataset::open
datasetOpen ==
    /\ m_DS = "null"
    /\ m_DS' = "opened"
    /\ UNCHANGED <<m_executeSQLMutex, sqlThreads>>

SqlInit ==
    /\ m_DS = "null"
    /\ m_executeSQLMutex = 0
    /\ sqlThreads = [t \in Threads |-> SqlIdle]

\* ============================================================ Dataset::destroy
\* m_path, its additions file (ADDS_EXT), its attachments folder (ATTACH_SUFFIX)
\* and its .aux.xml sidecar
SideFiles == {"additions", "attachments", "aux"}
FileNames == {"primary"} \cup SideFiles

destroyFilesKeepsGoing(fs, database, primaryOk, ok) ==
    [result |-> primaryOk,
     files |-> [f \in FileNames |->
                  IF f = "primary" THEN fs[f] /\ ~primaryOk
                  ELSE IF f = "additions" /\ database THEN fs[f]
                  ELSE fs[f] /\ ~ok[f]]]

\* the file part of Dataset::destroy: primaryOk is the answer of
\* File::deleteFile(m_path), ok[f] whether the removal of side file f works
destroyFiles(fs, database, primaryOk, ok) ==
    IF ~primaryOk THEN [result |-> FALSE, files |-> fs]
    ELSE [result |-> TRUE,
          files |-> [f \in FileNames |->
                       IF f = "primary" THEN FALSE
                       ELSE IF f = "additions" /\ database THEN fs[f]
                       ELSE fs[f] /\ ~ok[f]]]

NoDestroy == [op |-> "none", primaryOk |-> FALSE, result |-> FALSE,
              before |-> [f \in FileNames |-> FALSE]]

\* Dataset::destroy: clear(), both stores closed, then the files
datasetDestroy(primaryOk, ok) ==
    LET out == destroyFiles(files, isDatabase, primaryOk, ok)
    IN /\ primaryOk => files["primary"]
       /\ m_children' = << >>
       /\ m_DS' = "null"
       /\ files' = out.files
       /\ destroyCall' = [op |-> "destroy", primaryOk |-> primaryOk,
                          result |-> out.result, before |-> files]
       /\ UNCHANGED <<storeLayers, m_childrenLoaded, nextObj, refreshed,
                      m_executeSQLMutex, sqlThreads, mainStore, addsStore,
                      tableDestroyCall>>

\* a file of the dataset comes to exist (the dataset is created, an attachment
\* is added, a property written, statistics saved)
fileCreate(f) ==
    /\ ~files[f]
    /\ files' = [files EXCEPT ![f] = TRUE]
    /\ destroyCall' = NoDestroy
    /\ UNCHANGED <<mainStore, addsStore, tableDestroyCall>>

FilesInit ==
    /\ files = [f \in FileNames |-> f = "primary"]
    /\ destroyCall = NoDestroy

\* ============================================================== Table::destroy
\* tables of the dataset that carry side tables
OwnerNames == {"A", "B"}

\* the layers of m_addsDS: those of m_DS itself for a database (m_addsDS = m_DS)
AddsLayers == IF isDatabase THEN mainStore ELSE addsStore

\* Dataset::destroyTable(ds, layer): the layers of ds after the call, and its
\* answer; layer is found only if ds holds it, ok is the answer of DeleteLayer
destroyTable(ds, layer, ok) ==
    IF layer \in ds /\ ok THEN [layers |-> ds \ {layer}, result |-> TRUE]
    ELSE [layers |-> ds, result |-> FALSE]

\* Dataset::destroyAttachmentsTable / destroyEditHistoryTable for the side table
\* named side: looked up in m_addsDS, handed to destroyTable with m_DS
destroySideTable(ds, side, ok) ==
    IF side \notin AddsLayers THEN [layers |-> ds, result |-> FALSE]
    ELSE destroyTable(ds, side, ok)

NoTableDestroy == [op |-> "none", name |-> "", result |-> FALSE, existed |-> FALSE,
                   created |-> FALSE]

\* what GDALDataset::CreateLayer does with a name the store already has: it
\* refuses ("null") or makes a second layer of that name ("layer")
CreateLayerAnswers == {"null", "layer"}

\* Dataset::createOverviewsTable / createAttachmentsTable /
\* createEditHistoryTable: CreateLayer(side) on m_addsDS, no lookup before it
createSideTable(side, answer) ==
    LET existed == side \in AddsLayers
        made == ~existed \/ answer = "layer"
        added == IF made THEN {side} ELSE {}
    IN /\ IF isDatabase
          THEN mainStore' = mainStore \cup added /\ UNCHANGED addsStore
          ELSE addsStore' = addsStore \cup added /\ UNCHANGED mainStore
       /\ tableDestroyCall' = [op |-> "create", name |-> side, result |-> made,
                               existed |-> existed, created |-> made]
       /\ UNCHANGED <<files, destroyCall>>

\* Dataset::createTable
createTable(name) ==
    /\ name \notin mainStore
    /\ mainStore' = mainStore \cup {name}
    /\ tableDestroyCall' = NoTableDestroy
    /\ UNCHANGED <<files, destroyCall, addsStore>>

\* Table::destroy of the table named name; ok, attOk, logOk are the answers of
\* the three DeleteLayer calls
tableDestroy(name, ok, attOk, logOk) ==
    LET main == destroyTable(mainStore, name, ok)
        att == destroySideTable(main.layers, attachmentsTableName(name), attOk)
        log == destroySideTable(att.layers, historyTableName(name), logOk)
    IN /\ name \in mainStore
       /\ mainStore' = IF main.result THEN log.layers ELSE mainStore
       /\ tableDestroyCall' = [op |-> "destroy", name |-> name, result |-> main.result,
                               existed |-> TRUE, created |-> FALSE]
       /\ UNCHANGED <<files, destroyCall, addsStore>>

SideInit ==
    /\ mainStore = {}
    /\ addsStore = {}
    /\ tableDestroyCall = NoTableDestroy

\* ================================================ GlRenderLayer, the tile cache
\* The layer has a style and the tile pointer is not null: draw returns true at
\* once otherwise.
TileKeys == 1..MaxTiles
TileEntries == {"absent", "empty", "data"}
TileOps == {"fill", "draw", "free"}

TileIdle == [pc |-> "idle", op |-> "none", tile |-> 0, entry |-> "absent",
             held |-> FALSE, style |-> "none"]

NoTileCall == [op |-> "none", tile |-> 0, result |-> FALSE, drawn |-> FALSE,
               entry |-> "absent", held |-> FALSE, sentinel |-> FALSE, stale |-> FALSE]

\* names Style::createStyle knows
StyleNames == {"primitivePoint", "simplePoint"}

\* what GlFeatureLayer::fill puts under the key: GlObjectPtr() when the layer is
\* invisible, the tile of the feature class is empty or no buffer was built
fillEntry(visible, vtileEmpty, bufferOk) ==
    IF ~visible \/ vtileEmpty \/ ~bufferOk THEN "empty" ELSE "data"

\* fill, draw or free entered by thread t, up to its MutexHolder; fill of a
\* visible layer with an image style returns true before it
tileEnter(t, op, tile, vtileEmpty, image, bufferOk) ==
    /\ tileThreads[t].pc = "idle"
    /\ IF op = "fill" /\ m_visible /\ ~vtileEmpty /\ image
       THEN /\ tileCall' = [NoTileCall EXCEPT !.op = "fill", !.tile = tile, !.result = TRUE]
            /\ UNCHANGED tileThreads
       ELSE /\ tileThreads' = [tileThreads EXCEPT ![t] =
                   [pc |-> "acquire", op |-> op, tile |-> tile,
                    entry |-> IF op = "fill" THEN fillEntry(m_visible, vtileEmpty, bufferOk)
                              ELSE "absent",
                    held |-> FALSE,
                    style |-> IF op = "fill" THEN m_style ELSE "none"]]
            /\ UNCHANGED tileCall
    /\ UNCHANGED <<m_tiles, m_dataMutex, m_visible, sentinels, m_style, tileStyle>>

\* MutexHolder holder(m_dataMutex, timeout): the mutex is taken when it is
\* free; when another thread keeps it the wait ends with the timeout and the
\* caller goes on without it
tileAcquire(t) ==
    /\ tileThreads[t].pc = "acquire"
    /\ m_dataMutex' = IF m_dataMutex = 0 THEN t ELSE m_dataMutex
    /\ tileThreads' = [tileThreads EXCEPT ![t].pc = "critical",
                                          ![t].held = m_dataMutex = 0]
    /\ UNCHANGED <<m_tiles, m_visible, tileCall, sentinels, m_style, tileStyle>>

\* the access of thread t to m_tiles overlaps that of another thread, and one
\* of the two changes the map
tileRaced(t) ==
    \E u \in Threads \ {t} :
       /\ tileThreads[u].pc = "critical"
       /\ {tileThreads[t].op, tileThreads[u].op} # {"draw"}

\* GlFeatureLayer::draw from the lookup on: the answer, and whether the style
\* was asked to draw buffers; found is what m_tiles.find gave
drawFound(found) == [result |-> found # "absent", drawn |-> found = "data"]

\* the access to m_tiles and the return of the call of thread t; seen is what
\* a racing access reads or leaves behind
tileAccess(t, seen) ==
    LET me == tileThreads[t]
        raced == tileRaced(t)
        found == IF raced THEN seen ELSE m_tiles[me.tile]
        stored == IF raced THEN seen
                  ELSE IF me.op = "fill" THEN me.entry
                  ELSE IF me.op = "free" THEN "absent"
                  ELSE m_tiles[me.tile]
        answer == IF me.op = "draw" THEN drawFound(found)
                  ELSE [result |-> TRUE, drawn |-> FALSE]
    IN /\ me.pc = "critical"
       /\ ~raced => seen = "absent"
       /\ m_tiles' = IF me.op = "draw" THEN m_tiles
                     ELSE [m_tiles EXCEPT ![me.tile] = stored]
       /\ m_dataMutex' = IF m_dataMutex = t THEN 0 ELSE m_dataMutex
       /\ tileThreads' = [tileThreads EXCEPT ![t] = TileIdle]
       /\ tileCall' = [op |-> me.op, tile |-> me.tile, result |-> answer.result,
                       drawn |-> answer.drawn, entry |-> m_tiles[me.tile],
                       held |-> me.held,
                       sentinel |-> me.op = "fill" /\ me.entry = "empty",
                       stale |-> /\ me.op = "draw"
                                 /\ m_tiles[me.tile] = "data"
                                 /\ tileStyle[me.tile] # m_style]
       /\ tileStyle' = IF me.op = "draw" THEN tileStyle
                       ELSE [tileStyle EXCEPT ![me.tile] =
                               IF stored = "data" /\ me.op = "fill" THEN me.style
                               ELSE IF stored = "data" THEN @ ELSE "none"]
       /\ UNCHANGED m_style
       /\ sentinels' = IF me.op = "fill" /\ me.entry = "empty" THEN sentinels \cup {me.tile}
                       ELSE IF me.op = "draw" THEN sentinels
                       ELSE sentinels \ {me.tile}
       /\ UNCHANGED m_visible

\* GlRasterLayer::fill entered by thread t.  An invisible layer stores the empty
\* sentinel under a MutexHolder; a visible one looks the key up in m_tiles
\* first, with no holder.  pixels is what the raster gives for the tile:
\* "none" when the extents do not intersect, "failed" when pixelData fails,
\* "read" otherwise; entry is what the call is going to store, "absent" when
\* it is going to return false.
rasterFillEnter(t, tile, pixels, isLastTry) ==
    /\ tileThreads[t].pc = "idle"
    /\ tileThreads' = [tileThreads EXCEPT ![t] =
           IF ~m_visible
           THEN [pc |-> "acquire", op |-> "fill", tile |-> tile, entry |-> "empty",
                 held |-> FALSE, style |-> "none"]
           ELSE [pc |-> "lookup", op |-> "rasterFill", tile |-> tile,
                 entry |-> IF pixels = "read" THEN "data"
                           ELSE IF pixels = "none" \/ isLastTry THEN "empty"
                           ELSE "absent",
                 held |-> FALSE, style |-> "none"]]
    /\ UNCHANGED <<m_tiles, m_dataMutex, m_visible, tileCall, sentinels, m_style, tileStyle>>

\* if(m_tiles.find(tile->getTile()) != m_tiles.end()) return true; the lookup
\* overlaps the change of the map by another thread or not; then the pixels
\* are read, and the call returns false or goes on to store its entry
rasterFillLookup(t, seen) ==
    LET me == tileThreads[t]
        raced == \E u \in Threads \ {t} :
                     tileThreads[u].pc = "critical" /\ tileThreads[u].op # "draw"
        found == IF raced THEN seen ELSE m_tiles[me.tile]
    IN /\ me.pc = "lookup"
       /\ ~raced => seen = "absent"
       /\ IF found # "absent" \/ me.entry = "absent"
          THEN /\ tileThreads' = [tileThreads EXCEPT ![t] = TileIdle]
               /\ tileCall' = [NoTileCall EXCEPT !.op = "fill", !.tile = me.tile,
                                                 !.result = found # "absent",
                                                 !.entry = m_tiles[me.tile]]
          ELSE /\ tileThreads' = [tileThreads EXCEPT ![t].pc = "acquire", ![t].op = "fill"]
               /\ UNCHANGED tileCall
       /\ UNCHANGED <<m_tiles, m_dataMutex, m_visible, sentinels, m_style, tileStyle>>

\* Layer::setVisible
setVisible(visible) ==
    /\ m_visible # visible
    /\ m_visible' = visible
    /\ UNCHANGED <<m_tiles, m_dataMutex, tileThreads, tileCall, sentinels, m_style, tileStyle>>

\* GlFeatureLayer::setStyle(name); created: Style::createStyle gave a style.
\* The replaced style goes to m_oldStyles, which free() destroys later.
setStyle(name, created) ==
    /\ name # m_style
    /\ created
    /\ m_style' = name
    /\ UNCHANGED <<m_tiles, m_dataMutex, m_visible, tileThreads, tileCall, sentinels,
                   tileStyle>>

TilesInit ==
    /\ m_tiles = [k \in TileKeys |-> "absent"]
    /\ m_dataMutex = 0
    /\ m_visible = TRUE
    /\ tileThreads = [t \in Threads |-> TileIdle]
    /\ tileCall = NoTileCall
    /\ sentinels = {}
    /\ m_style = "primitivePoint"
    /\ tileStyle = [k \in TileKeys |-> "none"]

\* ======================================== GlFeatureLayer, filling a vector tile
\* A tile item is [fid, n, closed]: the feature it was cut from, the number of
\* its points and, for a line, whether it is closed.  The k-th item of a tile
\* comes from feature k.  A buffer records how many vertex slots are in use
\* (units), the item and the z of each polygon point (pts), the indices
\* (idx) and the emissions of the style (ems).

\* GlBuffer::maxVertices() and GlBuffer::maxIndices(), at the scale of the model
maxVertices == 32
maxIndices == 4

pointVerticesCount == 3
segmentVerticesCount == 12

CapTypes == {"CT_BUTT", "CT_SQUARE"}
JoinTypes == {"JT_MITER", "JT_BEVELED"}

\* SimpleLineStyle::lineCapVerticesCount: butt adds nothing, square two vertices
lineCapVerticesCount(style) == IF style.cap = "CT_SQUARE" THEN 2 ELSE 0

\* SimpleLineStyle::lineJoinVerticesCount: bevel one triangle, miter two
lineJoinVerticesCount(style) == IF style.join = "JT_BEVELED" THEN 3 ELSE 6

FillStyles ==
    {[type |-> "ST_POINT", name |-> "simplePoint", cap |-> "CT_BUTT", join |-> "JT_MITER"]}
    \cup {[type |-> "ST_LINE", name |-> "simpleLine", cap |-> c, join |-> j] :
              c \in CapTypes, j \in JoinTypes}
    \cup {[type |-> "ST_FILL", name |-> n, cap |-> "CT_BUTT", join |-> "JT_MITER"] :
              n \in {"simpleFill", "simpleFillBordered"}}

TileItems(k) == {[fid |-> k, n |-> n, closed |-> c] : n \in 0..MaxPoints, c \in BOOLEAN}

RECURSIVE TilesOf(_)
TilesOf(len) ==
    IF len = 0 THEN {<< >>}
    ELSE {Append(t, item) : t \in TilesOf(len - 1), item \in TileItems(len)}

VectorTiles == UNION {TilesOf(len) : len \in 0..MaxItems}

NoFill == [op |-> "none", out |-> << >>, selection |-> << >>, crashed |-> FALSE]

FillIdle == fillTile = << >> /\ m_hideFIDs = {} /\ m_selectedFIDs = {}
            /\ fillStyle = CHOOSE s \in FillStyles : s.type = "ST_POINT"

NewBuffer(type) == [type |-> type, units |-> 0, pts |-> << >>, idx |-> << >>, ems |-> << >>]

\* GlBuffer::canStoreVertices
canStoreVertices(buffer, amount) == buffer.units + amount <= maxVertices

\* VectorTileItem::isIdsPresent
isIdsPresent(item, other) == item.fid \in other

\* style->addPoint, addLineCap, addLineJoin, addSegment: one emission of the
\* style for the item; the room it takes in the buffer is counted in the unit
\* canStoreVertices is asked in
addEmission(buffer, amount, kind, item) ==
    [buffer EXCEPT !.units = @ + amount,
                   !.ems = Append(@, [kind |-> kind, fid |-> item.fid])]

\* if(!buffer->canStoreVertices(amount, true)) { addBuffer(buffer); buffer = new }
\* followed by the emission
makeRoom(run, amount) ==
    IF canStoreVertices(run.buffer, amount) THEN run
    ELSE [run EXCEPT !.array = Append(@, run.buffer),
                     !.buffer = NewBuffer(run.buffer.type)]

store(run, amount, kind, item) ==
    [makeRoom(run, amount) EXCEPT !.buffer = addEmission(@, amount, kind, item)]

NewRun(type) == [array |-> << >>, buffer |-> NewBuffer(type)]

RECURSIVE pointLoop(_, _, _)
pointLoop(run, item, i) ==
    IF i >= item.n THEN run
    ELSE pointLoop(store(run, pointVerticesCount, "point", item), item, i + 1)

RECURSIVE fillPointsFrom(_, _, _, _)
fillPointsFrom(items, k, hide, run) ==
    IF k > Len(items) THEN run
    ELSE IF hide # {} /\ isIdsPresent(items[k], hide) THEN fillPointsFrom(items, k + 1, hide, run)
    ELSE IF items[k].n < 1 THEN fillPointsFrom(items, k + 1, hide, run)
    ELSE fillPointsFrom(items, k + 1, hide, pointLoop(run, items[k], 0))

\* GlFeatureLayer::fillPoints
fillPoints(items, hide) ==
    LET run == fillPointsFrom(items, 1, hide, NewRun("BF_PT"))
    IN Append(run.array, run.buffer)

lineBodyNoJoin(run, item, i, end, closed, style) ==
    LET cap1 == IF (i = 0 \/ i = end) /\ ~closed /\ i = 0
                THEN store(run, lineCapVerticesCount(style), "cap", item) ELSE run
        cap2 == IF (i = 0 \/ i = end) /\ ~closed /\ i = end
                THEN store(cap1, lineCapVerticesCount(style), "cap", item) ELSE cap1
    IN store(cap2, segmentVerticesCount, "segment", item)

\* the body of the loop over the point pairs of a line: caps of an open line at
\* the first and the last pair, a join before every pair but the first, then
\* the segment
lineBody(run, item, i, end, closed, style) ==
    LET cap1 == IF (i = 0 \/ i = end) /\ ~closed /\ i = 0
                THEN store(run, lineCapVerticesCount(style), "cap", item) ELSE run
        cap2 == IF (i = 0 \/ i = end) /\ ~closed /\ i = end
                THEN store(cap1, lineCapVerticesCount(style), "cap", item) ELSE cap1
        join == IF i # 0
                THEN store(cap2, lineJoinVerticesCount(style), "join", item) ELSE cap2
    IN store(join, segmentVerticesCount, "segment", item)

\* for(size_t i = 0; i < tileItem.pointCount() - 1; ++i)
RECURSIVE lineLoop(_, _, _, _)
lineLoop(run, item, i, style) ==
    IF i >= item.n - 1 THEN run
    ELSE lineLoop(lineBody(run, item, i, item.n - 2, item.closed, style), item, i + 1, style)

RECURSIVE fillLinesFrom(_, _, _, _, _)
fillLinesFrom(items, k, hide, style, run) ==
    IF k > Len(items) THEN run
    ELSE IF isIdsPresent(items[k], hide) THEN fillLinesFrom(items, k + 1, hide, style, run)
    ELSE IF items[k].n < 2 THEN fillLinesFrom(items, k + 1, hide, style, run)
    ELSE fillLinesFrom(items, k + 1, hide, style, lineLoop(run, items[k], 0, style))

\* GlFeatureLayer::fillLines
fillLines(items, hide, style) ==
    LET run == fillLinesFrom(items, 1, hide, style, NewRun("BF_LINE"))
    IN Append(run.array, run.buffer)

\* VectorTileItem::indices: the triangles of the polygon as offsets into its
\* points, a fan around the first point
indices(item) ==
    [j \in 1..(3 * (item.n - 2)) |->
        IF j % 3 = 1 THEN 0 ELSE ((j - 1) \div 3) + (j % 3) + (IF j % 3 = 0 THEN 2 ELSE -1)]

\* VectorTileItem::borderIndices: the one ring of the polygon, closed
borderIndices(item) == <<[j \in 1..(item.n + 1) |-> (j - 1) % item.n]>>

RECURSIVE maxIndexPoint(_)
maxIndexPoint(seq) ==
    IF seq = << >> THEN 0
    ELSE LET rest == maxIndexPoint(Tail(seq))
         IN IF rest < Head(seq) THEN Head(seq) ELSE rest

\* for(auto point : points) addVertex(x), addVertex(y), addVertex(z)
addVertices(buffer, item, z) ==
    [buffer EXCEPT !.units = @ + item.n * 3,
                   !.pts = @ \o [j \in 1..item.n |-> [fid |-> item.fid, z |-> z]]]

\* for(auto indexPoint : indices) addIndex(fillIndex + indexPoint)
addIndices(buffer, item, fillIndex) ==
    [buffer EXCEPT !.idx = @ \o [j \in 1..Len(indices(item)) |->
                                    [fid |-> item.fid, at |-> fillIndex + indices(item)[j]]]]

\* the fill part of one polygon: room for its points, the points, the indices
\* from the index base, and the index base advanced by the largest offset
polygonFill(run, item) ==
    LET room == IF canStoreVertices(run.fillBuffer, item.n * 3) THEN run
                ELSE [run EXCEPT !.array = Append(@, run.fillBuffer),
                                 !.fillIndex = 0,
                                 !.fillBuffer = NewBuffer("BF_FILL")]
    IN [room EXCEPT !.fillBuffer = addIndices(addVertices(@, item, 0), item, room.fillIndex),
                    !.fillIndex = @ + maxIndexPoint(indices(item))]

\* the body of the loop over the point pairs of a border: the closing join at
\* the last pair, after a test for the room of a cap, a join before every pair
\* but the first, then the segment
borderBody(run, item, i, end, style) ==
    LET closing == IF i = end
                   THEN [makeRoom(run, lineCapVerticesCount(style)) EXCEPT
                            !.buffer = addEmission(@, lineJoinVerticesCount(style), "join", item)]
                   ELSE run
        join == IF i # 0
                THEN store(closing, lineJoinVerticesCount(style), "join", item) ELSE closing
    IN store(join, segmentVerticesCount, "segment", item)

\* for(size_t i = 0; i < border.size() - 1; ++i)
RECURSIVE borderLoop(_, _, _, _, _)
borderLoop(run, item, border, i, style) ==
    IF i >= Len(border) - 1 THEN run
    ELSE borderLoop(borderBody(run, item, i, Len(border) - 2, style), item, border, i + 1, style)

\* for(auto border : borders), into the line buffer
RECURSIVE polygonBorders(_, _, _, _, _)
polygonBorders(run, item, borders, b, style) ==
    IF b > Len(borders) THEN run
    ELSE LET lines == borderLoop([array |-> run.array, buffer |-> run.lineBuffer],
                                 item, borders[b], 0, style)
         IN polygonBorders([run EXCEPT !.array = lines.array, !.lineBuffer = lines.buffer],
                           item, borders, b + 1, style)

skipPolygon(item) == item.n < 3 \/ item.n > maxIndices \/ item.n > maxVertices

NewPolygonRun == [array |-> << >>, fillBuffer |-> NewBuffer("BF_FILL"),
                  lineBuffer |-> NewBuffer("BF_LINE"), fillIndex |-> 0]

RECURSIVE fillPolygonsFrom(_, _, _, _, _)
fillPolygonsFrom(items, k, hide, style, run) ==
    IF k > Len(items) THEN run
    ELSE IF isIdsPresent(items[k], hide) THEN fillPolygonsFrom(items, k + 1, hide, style, run)
    ELSE IF skipPolygon(items[k]) THEN fillPolygonsFrom(items, k + 1, hide, style, run)
    ELSE LET fill == polygonFill(run, items[k])
             done == IF style.name = "simpleFillBordered"
                     THEN polygonBorders(fill, items[k], borderIndices(items[k]), 1, style)
                     ELSE fill
         IN fillPolygonsFrom(items, k + 1, hide, style, done)

\* GlFeatureLayer::fillPolygons
fillPolygons(items, hide, style) ==
    LET run == fillPolygonsFrom(items, 1, hide, style, NewPolygonRun)
    IN Append(Append(run.array, run.fillBuffer), run.lineBuffer)

\* ------------------------------------------------ GlSelectableFeatureLayer
\* GlSelectableFeatureLayer::selectionStyle: the view's selection style of the
\* type of m_style; for fills a bordered one
selectionStyle(style) ==
    [style EXCEPT !.name = IF style.type = "ST_FILL" THEN "simpleFillBordered" ELSE @]

NewSelectableRun(type) == [draw |-> NewRun(type), select |-> NewRun(type)]

\* if(buffer->vertexSize() >= GlBuffer::maxVertices() - 7) { add the buffer; new } addPoint
storeSelectablePoint(run, item) ==
    LET room == IF run.buffer.units >= maxVertices - 7
                THEN [run EXCEPT !.array = Append(@, run.buffer),
                                 !.buffer = NewBuffer(run.buffer.type)]
                ELSE run
    IN [room EXCEPT !.buffer = addEmission(@, pointVerticesCount, "point", item)]

RECURSIVE selectablePointLoop(_, _, _)
selectablePointLoop(run, item, i) ==
    IF i >= item.n THEN run
    ELSE selectablePointLoop(storeSelectablePoint(run, item), item, i + 1)

RECURSIVE selectableFillPointsFrom(_, _, _, _, _)
selectableFillPointsFrom(items, k, hide, selected, run) ==
    IF k > Len(items) THEN run
    ELSE IF isIdsPresent(items[k], hide) \/ items[k].n < 1
         THEN selectableFillPointsFrom(items, k + 1, hide, selected, run)
    ELSE IF isIdsPresent(items[k], selected)
         THEN selectableFillPointsFrom(items, k + 1, hide, selected,
                  [run EXCEPT !.select = selectablePointLoop(@, items[k], 0)])
    ELSE selectableFillPointsFrom(items, k + 1, hide, selected,
                  [run EXCEPT !.draw = selectablePointLoop(@, items[k], 0)])

\* what a fill function of the selectable layer returns: the draw buffers and
\* the selection buffers of the VectorSelectableGlObject
SelectableObject(op, run) ==
    [op |-> op, out |-> Append(run.draw.array, run.draw.buffer),
     selection |-> Append(run.select.array, run.select.buffer), crashed |-> FALSE]

\* GlSelectableFeatureLayer::fillPoints
selectableFillPoints(items, hide, selected) ==
    SelectableObject("selectableFillPoints",
        selectableFillPointsFrom(items, 1, hide, selected, NewSelectableRun("BF_PT")))

RECURSIVE selectableFillLinesFrom(_, _, _, _, _, _)
selectableFillLinesFrom(items, k, hide, selected, style, run) ==
    IF k > Len(items) THEN run
    ELSE IF isIdsPresent(items[k], hide) \/ items[k].n < 2
         THEN selectableFillLinesFrom(items, k + 1, hide, selected, style, run)
    ELSE IF isIdsPresent(items[k], selected)
         THEN selectableFillLinesFrom(items, k + 1, hide, selected, style,
                  [run EXCEPT !.select = lineLoop(@, items[k], 0, selectionStyle(style))])
    ELSE selectableFillLinesFrom(items, k + 1, hide, selected, style,
                  [run EXCEPT !.draw = lineLoop(@, items[k], 0, style)])

\* GlSelectableFeatureLayer::fillLines
selectableFillLines(items, hide, selected, style) ==
    SelectableObject("selectableFillLines",
        selectableFillLinesFrom(items, 1, hide, selected, style, NewSelectableRun("BF_LINE")))

\* for(auto indexPoint : indices) addIndex(fillIndex++)
addIndicesInSequence(buffer, item, fillIndex) ==
    [buffer EXCEPT !.idx = @ \o [j \in 1..Len(indices(item)) |->
                                    [fid |-> item.fid, at |-> fillIndex + (j - 1)]]]

\* the fill part of one polygon in the selectable layer
selectablePolygonFill(run, item, z) ==
    LET room == IF canStoreVertices(run.fillBuffer, item.n * 3) THEN run
                ELSE [run EXCEPT !.array = Append(@, run.fillBuffer),
                                 !.fillIndex = 0,
                                 !.fillBuffer = NewBuffer("BF_FILL")]
    IN [room EXCEPT !.fillBuffer = addIndicesInSequence(addVertices(@, item, z), item,
                                                        room.fillIndex),
                    !.fillIndex = @ + Len(indices(item))]

selectablePolygon(run, item, style, z) ==
    LET fill == selectablePolygonFill(run, item, z)
    IN IF style.name = "simpleFillBordered"
       THEN polygonBorders(fill, item, borderIndices(item), 1, style)
       ELSE fill

\* the loop over the items; z grows by 2 with every item that is not skipped
RECURSIVE selectableFillPolygonsFrom(_, _, _, _, _, _, _)
selectableFillPolygonsFrom(items, k, hide, selected, style, run, z) ==
    IF k > Len(items) THEN run
    ELSE IF isIdsPresent(items[k], hide) \/ skipPolygon(items[k])
         THEN selectableFillPolygonsFrom(items, k + 1, hide, selected, style, run, z)
    ELSE IF isIdsPresent(items[k], selected)
         THEN selectableFillPolygonsFrom(items, k + 1, hide, selected, style,
                  [run EXCEPT !.select = selectablePolygon(@, items[k], selectionStyle(style), z)],
                  z + 2)
    ELSE selectableFillPolygonsFrom(items, k + 1, hide, selected, style,
                  [run EXCEPT !.draw = selectablePolygon(@, items[k], style, z)], z + 2)

\* GlSelectableFeatureLayer::fillPolygons
selectableFillPolygons(items, hide, selected, style) ==
    LET run == selectableFillPolygonsFrom(items, 1, hide, selected, style,
                                          [draw |-> NewPolygonRun, select |-> NewPolygonRun], 0)
    IN [op |-> "selectableFillPolygons",
        out |-> Append(Append(run.draw.array, run.draw.fillBuffer), run.draw.lineBuffer),
        selection |-> Append(Append(run.select.array, run.select.fillBuffer),
                             run.select.lineBuffer),
        crashed |-> FALSE]

\* ngsDynamicCast(SimpleFillBorderedStyle, m_style) is null for a style that is
\* no bordered fill, and drawStyle->lineStyle() dereferences it
castIsNull(style) == style.name # "simpleFillBordered"

\* ================================== table operations of concurrent threads
\* getFeature, featureCount and nextFeature construct CPLMutexHolder on
\* m_featureMutex of the table; insertFeature, updateFeature and deleteFeature
\* construct DatasetExecuteSQLLockHolder, and deleteAttachments calls
\* lockExecuteSql itself, both on m_executeSQLMutex of the dataset.
ReadOps == {"getFeature", "featureCount", "nextFeature"}
WriteOps == {"insertFeature", "updateFeature", "deleteFeature"}
SqlGuardedOps == WriteOps \cup {"deleteAttachments"}
TableOps == ReadOps \cup SqlGuardedOps

LockIdle == [pc |-> "idle", op |-> "none", holds |-> FALSE]

LocksIdle ==
    /\ m_featureMutex = 0
    /\ lockThreads = [t \in Threads |-> LockIdle]

\* thread t enters the operation; with m_layer null the reads and writes
\* return at once, otherwise the thread goes for the mutex of the operation
tableOpEnter(t, op, layerNull) ==
    /\ lockThreads[t].pc = "idle"
    /\ lockThreads' = [lockThreads EXCEPT ![t] =
           IF layerNull /\ op # "deleteAttachments" THEN LockIdle
           ELSE [pc |-> "lock", op |-> op, holds |-> FALSE]]
    /\ UNCHANGED <<m_featureMutex, m_executeSQLMutex>>

\* CPLMutexHolder holder(m_featureMutex): waits until the mutex is free
featureMutexAcquire(t) ==
    /\ lockThreads[t].pc = "lock"
    /\ lockThreads[t].op \in ReadOps
    /\ m_featureMutex = 0
    /\ m_featureMutex' = t
    /\ lockThreads' = [lockThreads EXCEPT ![t].pc = "store", ![t].holds = TRUE]
    /\ UNCHANGED m_executeSQLMutex

\* lockExecuteSql(true): CPLAcquireMutex(m_executeSQLMutex, 15.0) got the mutex
lockExecuteSqlAcquire(t) ==
    /\ lockThreads[t].pc = "lock"
    /\ lockThreads[t].op \in SqlGuardedOps
    /\ m_executeSQLMutex = 0
    /\ m_executeSQLMutex' = t
    /\ lockThreads' = [lockThreads EXCEPT ![t].pc = "store", ![t].holds = TRUE]
    /\ UNCHANGED m_featureMutex

\* lockExecuteSql(true): another thread kept the mutex for the 15 seconds,
\* CPLAcquireMutex returned FALSE; the result is not looked at and the caller
\* goes on to its store call
lockExecuteSqlTimeout(t) ==
    /\ lockThreads[t].pc = "lock"
    /\ lockThreads[t].op \in SqlGuardedOps
    /\ m_executeSQLMutex \notin {0, t}
    /\ lockThreads' = [lockThreads EXCEPT ![t].pc = "store", ![t].holds = FALSE]
    /\ UNCHANGED <<m_featureMutex, m_executeSQLMutex>>

\* the store call returned: the holder goes out of scope, or
\* lockExecuteSql(false) is called; a mutex the thread does not own stays as
\* it is
tableOpReturn(t) ==
    /\ lockThreads[t].pc = "store"
    /\ lockThreads' = [lockThreads EXCEPT ![t] = LockIdle]
    /\ m_featureMutex' = IF m_featureMutex = t THEN 0 ELSE m_featureMutex
    /\ m_executeSQLMutex' = IF m_executeSQLMutex = t THEN 0 ELSE m_executeSQLMutex

\* ================================================================= MapStore
INVALID_MAPID == 0
UCHAR_MAX == 255

NoMapCall == [op |-> "none", id |-> 0, map |-> 0, registered |-> FALSE]

\* MapStore::MapStore: the invalid map at index 0
MapsIdle ==
    /\ m_maps = <<0>>
    /\ nextMap = 1
    /\ mapCalls = 0
    /\ mapCall = NoMapCall

\* static_cast<unsigned char>
toUnsignedChar(i) == i % (UCHAR_MAX + 1)

\* m_maps[i] of the vector, whose first index is 0
MapAt(maps, i) == maps[i + 1]

\* MapStore::getMap
getMap(mapId) ==
    IF mapId >= Len(m_maps) \/ mapId = INVALID_MAPID THEN 0 ELSE MapAt(m_maps, mapId)

\* MapStore::createMap
createMap ==
    /\ mapCalls < MaxMapCalls
    /\ mapCalls' = mapCalls + 1
    /\ IF Len(m_maps) >= UCHAR_MAX
       THEN /\ mapCall' = [op |-> "createMap", id |-> INVALID_MAPID, map |-> 0, registered |-> FALSE]
            /\ UNCHANGED <<m_maps, nextMap>>
       ELSE /\ m_maps' = Append(m_maps, nextMap)
            /\ nextMap' = nextMap + 1
            /\ mapCall' = [op |-> "createMap", id |-> toUnsignedChar(Len(m_maps)),
                           map |-> nextMap, registered |-> TRUE]

\* MapStore::openMap; map is what file->map() gives, 0 when the file is null,
\* does not open or holds no map
openMap(map) ==
    /\ mapCalls < MaxMapCalls
    /\ mapCalls' = mapCalls + 1
    /\ nextMap' = IF map = nextMap THEN nextMap + 1 ELSE nextMap
    /\ IF map = 0
       THEN /\ mapCall' = [op |-> "openMap", id |-> INVALID_MAPID, map |-> 0, registered |-> FALSE]
            /\ UNCHANGED m_maps
       ELSE IF \E i \in 1..(Len(m_maps) - 1) : MapAt(m_maps, i) = map
       THEN LET i == CHOOSE i \in 1..(Len(m_maps) - 1) :
                        /\ MapAt(m_maps, i) = map
                        /\ \A j \in 1..(i - 1) : MapAt(m_maps, j) # map
            IN /\ mapCall' = [op |-> "openMap", id |-> toUnsignedChar(i), map |-> map,
                              registered |-> TRUE]
               /\ UNCHANGED m_maps
       ELSE IF \E i \in 1..(Len(m_maps) - 1) : MapAt(m_maps, i) = 0
       THEN LET i == CHOOSE i \in 1..(Len(m_maps) - 1) :
                        /\ MapAt(m_maps, i) = 0
                        /\ \A j \in 1..(i - 1) : MapAt(m_maps, j) # 0
            IN /\ m_maps' = [m_maps EXCEPT ![i + 1] = map]
               /\ mapCall' = [op |-> "openMap", id |-> toUnsignedChar(i), map |-> map,
                              registered |-> TRUE]
       ELSE /\ m_maps' = Append(m_maps, map)
            /\ mapCall' = [op |-> "openMap", id |-> toUnsignedChar(Len(m_maps)), map |-> map,
                           registered |-> TRUE]

\* MapStore::closeMap; closed is what map->close() returns
closeMap(mapId, closed) ==
    /\ mapCalls < MaxMapCalls
    /\ mapCalls' = mapCalls + 1
    /\ UNCHANGED nextMap
    /\ IF getMap(mapId) # 0 /\ closed
       THEN /\ m_maps' = [m_maps EXCEPT ![mapId + 1] = 0]
            /\ mapCall' = [op |-> "closeMap", id |-> mapId, map |-> 0, registered |-> TRUE]
       ELSE /\ UNCHANGED m_maps
            /\ mapCall' = [op |-> "closeMap", id |-> mapId, map |-> 0, registered |-> FALSE]

\* ------------------------------------------------------------ field names
forbiddenSQLFieldNames == {
    <<"A", "B", "O", "R", "T">>,
    <<"A", "C", "T", "I", "O", "N">>,
    <<"A", "D", "D">>,
    <<"A", "F", "T", "E", "R">>,
    <<"A", "L", "L">>,
    <<"A", "L", "T", "E", "R">>,
    <<"A", "N", "A", "L", "Y", "Z", "E">>,
    <<"A", "N", "D">>,
    <<"A", "S">>,
    <<"A", "S", "C">>,
    <<"A", "T", "T", "A", "C", "H">>,
    <<"A", "U", "T", "O", "I", "N", "C", "R", "E", "M", "E", "N", "T">>,
    <<"B", "E", "F", "O", "R", "E">>,
    <<"B", "E", "G", "I", "N">>,
    <<"B", "E", "T", "W", "E", "E", "N">>,
    <<"B", "Y">>,
    <<"C", "A", "S", "C", "A", "D", "E">>,
    <<"C", "A", "S", "E">>,
    <<"C", "A", "S", "T">>,
    <<"C", "H", "E", "C", "K">>,
    <<"C", "O", "L", "L", "A", "T", "E">>,
    <<"C", "O", "L", "U", "M", "N">>,
    <<"C", "O", "M", "M", "I", "T">>,
    <<"C", "O", "N", "F", "L", "I", "C", "T">>,
    <<"C", "O", "N", "S", "T", "R", "A", "I", "N", "T">>,
    <<"C", "R", "E", "A", "T", "E">>,
    <<"C", "R", "O", "S", "S">>,
    <<"C", "U", "R", "R", "E", "N", "T", "_", "D", "A", "T", "E">>,
    <<"C", "U", "R", "R", "E", "N", "T", "_", "T", "I", "M", "E">>,
    <<"C", "U", "R", "R", "E", "N", "T", "_", "T", "I", "M", "E", "S", "T", "A", "M", "P">>,
    <<"D", "A", "T", "A", "B", "A", "S", "E">>,
    <<"D", "E", "F", "A", "U", "L", "T">>,
    <<"D", "E", "F", "E", "R", "R", "A", "B", "L", "E">>,
    <<"D", "E", "F", "E", "R", "R", "E", "D">>,
    <<"D", "E", "L", "E", "T", "E">>,
    <<"D", "E", "S", "C">>,
    <<"D", "E", "T", "A", "C", "H">>,
    <<"D", "I", "S", "T", "I", "N", "C", "T">>,
    <<"D", "R", "O", "P">>,
    <<"E", "A", "C", "H">>,
    <<"E", "L", "S", "E">>,
    <<"E", "N", "D">>,
    <<"E", "S", "C", "A", "P", "E">>,
    <<"E", "X", "C", "E", "P", "T">>,
    <<"E", "X", "C", "L", "U", "S", "I", "V", "E">>,
    <<"E", "X", "I", "S", "T", "S">>,
    <<"E", "X", "P", "L", "A", "I", "N">>,
    <<"F", "A", "I", "L">>,
    <<"F", "O", "R">>,
    <<"F", "O", "R", "E", "I", "G", "N">>,
    <<"F", "R", "O", "M">>,
    <<"F", "U", "L", "L">>,
    <<"G", "L", "O", "B">>,
    <<"G", "R", "O", "U", "P">>,
    <<"H", "A", "V", "I", "N", "G">>,
    <<"I", "F">>,
    <<"I", "G", "N", "O", "R", "E">>,
    <<"I", "M", "M", "E", "D", "I", "A", "T", "E">>,
    <<"I", "N">>,
    <<"I", "N", "D", "E", "X">>,
    <<"I", "N", "D", "E", "X", "E", "D">>,
    <<"I", "N", "I", "T", "I", "A", "L", "L", "Y">>,
    <<"I", "N", "N", "E", "R">>,
    <<"I", "N", "S", "E", "R", "T">>,
    <<"I", "N", "S", "T", "E", "A", "D">>,
    <<"I", "N", "T", "E", "R", "S", "E", "C", "T">>,
    <<"I", "N", "T", "O">>,
    <<"I", "S">>,
    <<"I", "S", "N", "U", "L", "L">>,
    <<"J", "O", "I", "N">>,
    <<"K", "E", "Y">>,
    <<"L", "E", "F", "T">>,
    <<"L", "I", "K", "E">>,
    <<"L", "I", "M", "I", "T">>,
    <<"M", "A", "T", "C", "H">>,
    <<"N", "A", "T", "U", "R", "A", "L">>,
    <<"N", "O">>,
    <<"N", "O", "T">>,
    <<"N", "O", "T", "N", "U", "L", "L">>,
    <<"N", "U", "L", "L">>,
    <<"O", "F">>,
    <<"O", "F", "F", "S", "E", "T">>,
    <<"O", "N">>,
    <<"O", "R">>,
    <<"O", "R", "D", "E", "R">>,
    <<"O", "U", "T", "E", "R">>,
    <<"P", "L", "A", "N">>,
    <<"P", "R", "A", "G", "M", "A">>,
    <<"P", "R", "I", "M", "A", "R", "Y">>,
    <<"Q", "U", "E", "R", "Y">>,
    <<"R", "A", "I", "S", "E">>,
    <<"R", "E", "C", "U", "R", "S", "I", "V", "E">>,
    <<"R", "E", "F", "E", "R", "E", "N", "C", "E", "S">>,
    <<"R", "E", "G", "E", "X", "P">>,
    <<"R", "E", "I", "N", "D", "E", "X">>,
    <<"R", "E", "L", "E", "A", "S", "E">>,
    <<"R", "E", "N", "A", "M", "E">>,
    <<"R", "E", "P", "L", "A", "C", "E">>,
    <<"R", "E", "S", "T", "R", "I", "C", "T">>,
    <<"R", "I", "G", "H", "T">>,
    <<"R", "O", "L", "L", "B", "A", "C", "K">>,
    <<"R", "O", "W">>,
    <<"S", "A", "V", "E", "P", "O", "I", "N", "T">>,
    <<"S", "E", "L", "E", "C", "T">>,
    <<"S", "E", "T">>,
    <<"T", "A", "B", "L", "E">>,
    <<"T", "E", "M", "P">>,
    <<"T", "E", "M", "P", "O", "R", "A", "R", "Y">>,
    <<"T", "H", "E", "N">>,
    <<"T", "O">>,
    <<"T", "R", "A", "N", "S", "A", "C", "T", "I", "O", "N">>,
    <<"T", "R", "I", "G", "G", "E", "R">>,
    <<"U", "N", "I", "O", "N">>,
    <<"U", "N", "I", "Q", "U", "E">>,
    <<"U", "P", "D", "A", "T", "E">>,
    <<"U", "S", "I", "N", "G">>,
    <<"V", "A", "C", "U", "U", "M">>,
    <<"V", "A", "L", "U", "E", "S">>,
    <<"V", "I", "E", "W">>,
    <<"V", "I", "R", "T", "U", "A", "L">>,
    <<"W", "H", "E", "N">>,
    <<"W", "H", "E", "R", "E">>,
    <<"W", "I", "T", "H">>,
    <<"W", "I", "T", "H", "O", "U", "T">>}

LowerCase == <<"a", "b", "c", "d", "e", "f", "g", "h", "i", "j", "k", "l", "m",
               "n", "o", "p", "q", "r", "s", "t", "u", "v", "w", "x", "y", "z">>
UpperCase == <<"A", "B", "C", "D", "E", "F", "G", "H", "I", "J", "K", "L", "M",
               "N", "O", "P", "Q", "R", "S", "T", "U", "V", "W", "X", "Y", "Z">>
Digits == {"0", "1", "2", "3", "4", "5", "6", "7", "8", "9"}

\* CPLString::toupper: converts the string it is called on
toupper(s) ==
    [i \in 1..Len(s) |->
        IF \E j \in 1..Len(LowerCase) : LowerCase[j] = s[i]
        THEN UpperCase[CHOOSE j \in 1..Len(LowerCase) : LowerCase[j] = s[i]]
        ELSE s[i]]

isdigit(s) == Len(s) > 0 /\ s[1] \in Digits

\* normalize(name) of util/stringutil, called without a language: no
\* transliteration is applied
normalize(name) == name

normalizeFieldNameAppends(name, database) ==
    LET out == replaceForbidden(normalize(name))
        fld == IF isdigit(out) THEN <<"F", "l", "d", "_">> \o out ELSE out
    IN IF database THEN toupper(fld) \o <<"_">> ELSE fld

\* Dataset::normalizeFieldName(name); out.toupper() converts out itself, so
\* on a database the name comes back in upper case
normalizeFieldName(name, database) ==
    LET out == replaceForbidden(normalize(name))
        fld == IF isdigit(out) THEN <<"F", "l", "d", "_">> \o out ELSE out
        testFb == toupper(fld)
    IN IF database
       THEN IF testFb \in forbiddenSQLFieldNames THEN testFb \o <<"_">> ELSE testFb
       ELSE fld

\* characters the field names of the model are made of
NameChars == {"a", "s", "S", "n", "o", "1", "-", "_"}
FieldNames == UNION {[1..n -> NameChars] : n \in 0..MaxName}

normalizeFieldNameCall ==
    /\ Len(normalized) < MaxNormalize
    /\ normalized' = Append(normalized,
                            normalizeFieldName(IF normalized = << >> THEN fieldName
                                               ELSE normalized[Len(normalized)],
                                               isDatabase))
    /\ UNCHANGED fieldName

SidesIdle == RefreshIdle /\ PropsIdle /\ SqlInit /\ FilesInit /\ SideInit /\ TilesInit
             /\ normalized = << >> /\ filled = NoFill /\ LocksIdle /\ MapsIdle
DatasetIdle == SidesIdle /\ fieldName = << >> /\ FillIdle

PasteIdle ==
    /\ pc = "idle"
    /\ srcType = "table"
    /\ srcRows = << >>
    /\ srcExists = TRUE
    /\ dstLayers = << >>
    /\ children = {}
    /\ paste = NoPaste

\* a table just opened: no handle cached, the history switch not yet read
TableInit ==
    /\ m_layer \in SUBSET Fids
    /\ m_attTable = "null"
    /\ attRows = {}
    /\ nextAid = 1
    /\ m_editHistoryTable = << >>
    /\ m_saveEditHistory = NOT_FOUND
    /\ historyProperty \in {"ON", "OFF"}
    /\ isDatabase \in BOOLEAN
    /\ batchCounter = 0
    /\ createPending = {}
    /\ attCreatePending = {}
    /\ last = NoCall

\* the store accepts every call
StoreAccepts == {out \in StoreOutcomes : out.ok}

InsertFeature(outs) == \E fid \in Fids, logEdits \in BOOLEAN, out \in outs :
                    insertFeature(fid, logEdits, out) /\ UNCHANGED exceptTable
UpdateFeature(outs) == \E fid \in Fids, logEdits \in BOOLEAN, out \in outs :
                    updateFeature(fid, logEdits, out) /\ UNCHANGED exceptTable
DeleteFeature(outs) == \E id \in Fids, logEdits \in BOOLEAN, out \in outs :
                    deleteFeature(id, logEdits, out) /\ UNCHANGED exceptTable
DeleteFeatures(oks) == \E logEdits \in BOOLEAN, ok \in oks :
                    deleteFeatures(logEdits, ok) /\ UNCHANGED exceptTable
AddAttachment == \E fid \in Fids, logEdits \in BOOLEAN :
                    addAttachment(fid, logEdits) /\ UNCHANGED exceptTable
DeleteAttachment == \E aid \in Aids, logEdits \in BOOLEAN, fileOk \in BOOLEAN :
                    deleteAttachment(aid, logEdits, fileOk) /\ UNCHANGED exceptTable
DeleteAttachments == \E fid \in Fids, logEdits \in BOOLEAN :
                    deleteAttachments(fid, logEdits) /\ UNCHANGED exceptTable
UpdateAttachment(outs) == \E aid \in Aids, logEdits \in BOOLEAN, out \in outs :
                    updateAttachment(aid, logEdits, out) /\ UNCHANGED exceptTable
SetSaveEditHistory == \E on \in BOOLEAN : setSaveEditHistory(on) /\ UNCHANGED exceptTable
DeleteEditOperation == \E i \in 1..Len(m_editHistoryTable) :
                    deleteEditOperationCall(i) /\ UNCHANGED exceptTable
StartBatchOperation == startBatchOperation /\ UNCHANGED exceptTable
StopBatchOperation == stopBatchOperation /\ UNCHANGED exceptTable

\* ------------------------------------------------ the edit log of one table
\* Edits of a table whose history switch is stored ON, on a store that accepts them.
Init == TableInit /\ PasteIdle /\ DatasetIdle /\ historyProperty = "ON"

Next ==
    \/ InsertFeature(StoreAccepts)
    \/ UpdateFeature(StoreAccepts)
    \/ DeleteFeature(StoreAccepts)
    \/ DeleteFeatures({TRUE})
    \/ AddAttachment
    \/ DeleteAttachment
    \/ DeleteAttachments
    \/ UpdateAttachment(StoreAccepts)
    \/ DeleteEditOperation

Spec == Init /\ [][Next]_vars

\* the rows of the edit log
LogRows == {m_editHistoryTable[i] : i \in 1..Len(m_editHistoryTable)}

\* C1: with history enabled, when create-feature was logged for F and the next
\* logged activity for F is a logged delete-feature, the log afterwards has no
\* entry with feature id F.
C1_CreateThenDeleteLeavesNoEntry ==
    (/\ last.op = "deleteFeature"
     /\ last.logged.code = CC_DELETE_FEATURE
     /\ last.logged.fid # NOT_FOUND
     /\ last.afterCreate)
    => \A r \in LogRows : r.fid # last.fid

\* a create-then-delete of F was compacted away while rows of another feature stay
C1_Witness ==
    /\ last.op = "deleteFeature"
    /\ last.logged.code = CC_DELETE_FEATURE
    /\ last.logged.fid # NOT_FOUND
    /\ last.afterCreate
    /\ m_editHistoryTable # << >>

C3_NeverBothCreateAndDelete ==
    \A r, q \in LogRows :
        /\ ~(r.code = CC_CREATE_FEATURE /\ q.code = CC_DELETE_FEATURE /\ r.fid = q.fid)
        /\ ~(/\ r.code = CC_CREATE_ATTACHMENT
             /\ q.code = CC_DELETE_ATTACHMENT
             /\ r.fid = q.fid
             /\ r.aid = q.aid)

\* C3 amended: the log never holds a create-feature entry followed later by a
\* delete-feature entry with the same feature id, nor a create-attachment entry
\* followed later by a delete-attachment entry with the same (feature id,
\* attachment id).
C3_NoDeleteAfterCreate ==
    \A i, j \in 1..Len(m_editHistoryTable) :
        i < j =>
            LET r == m_editHistoryTable[i]
                q == m_editHistoryTable[j]
            IN /\ ~(r.code = CC_CREATE_FEATURE /\ q.code = CC_DELETE_FEATURE /\ r.fid = q.fid)
               /\ ~(/\ r.code = CC_CREATE_ATTACHMENT
                    /\ q.code = CC_DELETE_ATTACHMENT
                    /\ r.fid = q.fid
                    /\ r.aid = q.aid)

\* a delete-feature entry followed by a create-feature entry of a feature that
\* was given the same id
C3_Witness ==
    \E i, j \in 1..Len(m_editHistoryTable) :
        /\ i < j
        /\ m_editHistoryTable[i].code = CC_DELETE_FEATURE
        /\ m_editHistoryTable[j].code = CC_CREATE_FEATURE
        /\ m_editHistoryTable[i].fid = m_editHistoryTable[j].fid

\* C4: right after delete-all-features is logged, the log is exactly one row,
\* the delete-all-features sentinel.
C4_DeleteAllLeavesOnlySentinel ==
    (last.op = "deleteFeatures" /\ last.logged.code = CC_DELETEALL_FEATURES)
    => m_editHistoryTable =
           <<[fid |-> NOT_FOUND, aid |-> NOT_FOUND, code |-> CC_DELETEALL_FEATURES]>>

\* delete-all-features was logged over a log that held entries
C4_Witness ==
    /\ last.op = "deleteFeatures"
    /\ last.logged.code = CC_DELETEALL_FEATURES
    /\ last.afterCreate

\* ------------------------------------------------------------ Dataset::refresh
Refresh == refresh /\ UNCHANGED exceptRefresh
StoreCreateLayer == \E name \in LayerNames, geom \in {"NONE", "POINT"} :
                       storeCreateLayer(name, geom) /\ UNCHANGED exceptRefresh
StoreDeleteLayer == \E i \in 1..Len(storeLayers) :
                       storeDeleteLayer(i) /\ UNCHANGED exceptRefresh

InitRefresh == TableInit /\ PasteIdle /\ DatasetIdle /\ m_layer = {}
               /\ historyProperty = "OFF" /\ isDatabase

NextRefresh ==
    \/ Refresh
    \/ StoreCreateLayer
    \/ StoreDeleteLayer

SpecRefresh == InitRefresh /\ [][NextRefresh]_vars

\* the child of kids named name, as a set (empty when there is none)
ChildNamed(kids, name) == {kids[i] : i \in {j \in 1..Len(kids) : kids[j].name = name}}

\* the visible layers the last refresh found in the store
VisibleAtRefresh == {n \in NamesOf(storeLayers) : ~skipFillFeatureClass(n)}

\* C12: after refresh() of a dataset whose children were loaded, the child list
\* holds exactly the layers of the live store that are not hidden, one child
\* each: a child whose layer is gone is removed, a layer without a child gets a
\* new one, and a child whose layer is still there is the same object as before
\* (store {A, C} and children {A, B} give children {A, C} with A untouched).
C12_RefreshSyncsChildren ==
    (refreshed.op = "refresh" /\ refreshed.loaded)
    => /\ NamesOf(m_children) = VisibleAtRefresh
       /\ Len(m_children) = Cardinality(VisibleAtRefresh)
       /\ \A n \in NamesOf(refreshed.before) \cap VisibleAtRefresh :
             ChildNamed(m_children, n) = ChildNamed(refreshed.before, n)
       /\ \A n \in VisibleAtRefresh \ NamesOf(refreshed.before) :
             \A c \in ChildNamed(m_children, n) :
                \A i \in 1..Len(refreshed.before) : refreshed.before[i].obj # c.obj

\* the store held {A, C}, the children were {A, B}, and refresh has run
C12_Witness ==
    /\ refreshed.op = "refresh" /\ refreshed.loaded
    /\ NamesOf(refreshed.before) = {<<"A">>, <<"B">>}
    /\ VisibleAtRefresh = {<<"A">>, <<"C">>}
    /\ NamesOf(m_children) = {<<"A">>, <<"C">>}

\* --------------------------------------------------------- Dataset properties
SetProperty == \E key \in PropertyKeys, value \in PropertyValues, createOk \in BOOLEAN,
                  storeOk \in BOOLEAN :
                  setProperty(key, value, createOk, storeOk) /\ UNCHANGED exceptProps
Property == \E key \in PropertyKeys, defaultValue \in PropertyDefaults :
                  propertyCall(key, defaultValue) /\ UNCHANGED exceptProps

NextProps ==
    \/ SetProperty
    \/ Property

SpecProps == InitRefresh /\ [][NextProps]_vars

\* C13: a property read returns the caller's default for every key that has no
\* stored value, whether or not the metadata table already exists because
\* other keys were written.
C13_AbsentKeyReadsDefault ==
    (propCall.op = "property" /\ ~propCall.stored) => propCall.result = propCall.value

\* the value of the last row stored for the key
LastValue(rows, key) ==
    LET i == CHOOSE i \in 1..Len(rows) :
                 /\ rows[i].key = key
                 /\ \A j \in (i + 1)..Len(rows) : rows[j].key # key
    IN rows[i].value

\* C38: the property store behaves as a key-value map under repeated writes:
\* after any sequence of setProperty calls, property(k, d) returns the value
\* of the most recent setProperty for k, and setProperty returns true exactly
\* when its value was stored.
C38_PropertyStoreIsMap ==
    /\ propCall.op = "setProperty" => (propCall.result = "true" <=> propCall.stored)
    /\ (propCall.op = "property" /\ propCall.stored)
          => propCall.result = LastValue(metaRows, propCall.key)

\* --------------------------------------------------------- Dataset::executeSQL
ExecuteSQLEnter == \E t \in Threads, spatial \in BOOLEAN :
                      executeSQLEnter(t, spatial) /\ UNCHANGED exceptSql
ExecuteSQLLock == \E t \in Threads : executeSQLLock(t) /\ UNCHANGED exceptSql
ExecuteSQLReturn == \E t \in Threads, layer \in {"null", "NONE", "POINT"} :
                      executeSQLReturn(t, layer) /\ UNCHANGED exceptSql
DatasetOpen == datasetOpen /\ UNCHANGED exceptSql

NextSql ==
    \/ ExecuteSQLEnter
    \/ ExecuteSQLLock
    \/ ExecuteSQLReturn
    \/ DatasetOpen

SpecSql == InitRefresh /\ [][NextSql]_vars

\* C14: every executeSQL call, with or without a spatial filter, runs its query
\* against the store while the calling thread holds the dataset-wide SQL mutex.
C14_QueryUnderMutex ==
    \A t \in Threads : sqlThreads[t].pc = "query" => m_executeSQLMutex = t

\* ------------------------------------------------------------ Dataset::destroy
DatasetDestroy == \E primaryOk \in BOOLEAN, ok \in [SideFiles -> BOOLEAN] :
                     datasetDestroy(primaryOk, ok)
                     /\ UNCHANGED <<tableVars, pasteVars, propVars, tileVars, nameVars, fillVars,
                                    lockVars, mapVars>>
FileCreate == \E f \in FileNames : fileCreate(f) /\ UNCHANGED exceptFiles

InitFiles == TableInit /\ PasteIdle /\ DatasetIdle /\ m_layer = {}
             /\ historyProperty = "OFF"

NextFiles ==
    \/ DatasetDestroy
    \/ FileCreate
    \/ DatasetOpen

SpecFiles == InitFiles /\ [][NextFiles]_vars

\* C15: if the primary file cannot be deleted, Dataset::destroy() reports
\* failure and deletes none of the additions file, the attachment folder or
\* the .aux.xml sidecar.
C15_UndeletablePrimaryKeepsSideFiles ==
    (destroyCall.op = "destroy" /\ ~destroyCall.primaryOk)
    => /\ destroyCall.result = FALSE
       /\ files = destroyCall.before

\* destroy failed on the primary file while every side file was there
C15_Witness ==
    /\ destroyCall.op = "destroy" /\ ~destroyCall.primaryOk
    /\ \A f \in FileNames : destroyCall.before[f] /\ files[f]

\* C16: after deleteFeatures() succeeds on a table no attachment record of the
\* table remains: attachments(fid) returns an empty list for every feature id,
\* for database-backed and flat-file datasets alike.
C16_DeleteFeaturesClearsAttachments ==
    (last.op = "deleteFeatures" /\ last.result = TRUE)
    => \A fid \in Fids : attachments(fid) = {[ok |-> TRUE, ids |-> {}]}

\* C25: for an existing feature addAttachment returns a valid attachment id
\* (not -1); for an id so returned updateAttachment succeeds, and a following
\* deleteAttachment succeeds and removes the attachment from attachments(fid).
C25_AttachmentLifeCycle ==
    /\ (last.op = "addAttachment" /\ last.fid \in m_layer)
       => (last.result = TRUE /\ last.aid # NOT_FOUND)
    /\ (last.op = "updateAttachment" /\ last.fid # NOT_FOUND) => last.result = TRUE
    /\ (last.op = "deleteAttachment" /\ last.fid # NOT_FOUND)
       => /\ last.result = TRUE
          /\ \A a \in attachments(last.fid) : a.ok /\ last.aid \notin a.ids

\* -------------------------------------------------------------- Table::destroy
CreateTable == \E name \in OwnerNames : createTable(name) /\ UNCHANGED exceptFiles
CreateSideTable ==
    \E name \in OwnerNames :
       \E side \in {attachmentsTableName(name), historyTableName(name),
                    overviewsTableName(name)}, answer \in CreateLayerAnswers :
          name \in mainStore /\ createSideTable(side, answer) /\ UNCHANGED exceptFiles
TableDestroy == \E name \in OwnerNames, ok \in BOOLEAN, attOk \in BOOLEAN, logOk \in BOOLEAN :
                   tableDestroy(name, ok, attOk, logOk) /\ UNCHANGED exceptFiles

NextSide ==
    \/ CreateTable
    \/ CreateSideTable
    \/ TableDestroy

SpecSide == InitFiles /\ [][NextSide]_vars

\* C17: after Table::destroy() succeeds the table's side tables are gone too:
\* neither its attachments table nor its edit-history table exists any longer
\* in the dataset's additions store.
C17_DestroyDropsSideTables ==
    (tableDestroyCall.op = "destroy" /\ tableDestroyCall.result)
    => /\ attachmentsTableName(tableDestroyCall.name) \notin AddsLayers
       /\ historyTableName(tableDestroyCall.name) \notin AddsLayers

\* C23: creating an auxiliary table (overviews, attachments or edit-history) is
\* idempotent: a create request for a table whose auxiliary table already exists
\* finds the existing one and yields it, without creating a second table and
\* without failing.
C23_CreateSideTableIdempotent ==
    (tableDestroyCall.op = "create" /\ tableDestroyCall.existed)
    => (tableDestroyCall.result /\ ~tableDestroyCall.created)

\* ---------------------------------------------------------------- tile cache
TileEnter == \E t \in Threads, op \in TileOps, tile \in TileKeys, vtileEmpty \in BOOLEAN,
                image \in BOOLEAN, bufferOk \in BOOLEAN :
                tileEnter(t, op, tile, vtileEmpty, image, bufferOk) /\ UNCHANGED exceptTiles
TileAcquire == \E t \in Threads : tileAcquire(t) /\ UNCHANGED exceptTiles
TileAccess == \E t \in Threads, seen \in TileEntries :
                tileAccess(t, seen) /\ UNCHANGED exceptTiles
SetVisible == \E visible \in BOOLEAN : setVisible(visible) /\ UNCHANGED exceptTiles
SetStyle == \E name \in StyleNames, created \in BOOLEAN :
               setStyle(name, created) /\ UNCHANGED exceptTiles

NextTiles ==
    \/ TileEnter
    \/ TileAcquire
    \/ TileAccess
    \/ SetVisible
    \/ SetStyle

SpecTiles == InitRefresh /\ [][NextTiles]_vars

RasterFillEnter == \E t \in Threads, tile \in TileKeys, pixels \in {"none", "failed", "read"},
                      isLastTry \in BOOLEAN :
                      rasterFillEnter(t, tile, pixels, isLastTry) /\ UNCHANGED exceptTiles
RasterFillLookup == \E t \in Threads, seen \in TileEntries :
                      rasterFillLookup(t, seen) /\ UNCHANGED exceptTiles

\* the feature layer and the raster layer
NextLayers ==
    \/ TileEnter
    \/ TileAcquire
    \/ TileAccess
    \/ SetVisible
    \/ RasterFillEnter
    \/ RasterFillLookup

SpecLayers == InitRefresh /\ [][NextLayers]_vars

\* C35: if fill(tile) returns success, the tile becomes drawable: every
\* subsequent draw(tile) returns something other than "not ready" until the
\* tile's entry is freed, so a caller polling draw(tile) after a successful
\* fill does not poll forever, whatever the layer's style category.  Stated
\* for the moment the fill returned: the cache holds an entry for the tile,
\* which is what draw answers "not ready" without.
C35_FilledTileIsDrawable ==
    (tileCall.op = "fill" /\ tileCall.result) => m_tiles[tileCall.tile] # "absent"

\* C36: every lookup, insert and erase on a render layer's tile cache map is
\* performed while the acting thread holds that layer's data mutex, in fill,
\* draw and free of both feature and raster layers.
C36_CacheAccessUnderMutex ==
    \A t \in Threads :
        tileThreads[t].pc \in {"critical", "lookup"} => m_dataMutex = t


\* C18: draw(tile) returns "not ready" (false) exactly when the layer's tile
\* cache has no entry for the tile's key; when the cached entry is the empty
\* sentinel it returns success without issuing any draw call.
C18_DrawFollowsCache ==
    tileCall.op = "draw"
    => /\ tileCall.result = FALSE <=> tileCall.entry = "absent"
       /\ tileCall.entry = "empty" => (tileCall.result /\ ~tileCall.drawn)

\* C19: when the layer is invisible or the tile's geometry is empty, fill(tile)
\* stores the empty sentinel under the tile's key and returns success, and
\* every later draw(tile) returns success until that entry is freed.
C19_SentinelMarksTileDone ==
    /\ (tileCall.op = "fill" /\ tileCall.sentinel)
       => (tileCall.result /\ m_tiles[tileCall.tile] = "empty")
    /\ (tileCall.op = "draw" /\ tileCall.tile \in sentinels) => tileCall.result

\* C20: if the tile-cache mutex cannot be acquired within the timeout,
\* draw(tile) returns "not ready" and neither reads nor modifies the tile
\* cache without holding the mutex.
C20_TimeoutMeansNotReady ==
    /\ \A t \in Threads :
          (tileThreads[t].op = "draw" /\ tileThreads[t].pc = "critical")
          => tileThreads[t].held
    /\ (tileCall.op = "draw" /\ ~tileCall.held) => tileCall.result = FALSE

\* C21: a change of the layer's style evicts the cached tile buffers: after
\* setStyle replaced the style no cache entry built with the previous style
\* remains, and draw(tile) returns "not ready" for such a tile until it is
\* filled again.
C21_StyleChangeEvictsTiles ==
    /\ \A k \in TileKeys : m_tiles[k] = "data" => tileStyle[k] = m_style
    /\ (tileCall.op = "draw" /\ tileCall.stale) => tileCall.result = FALSE

\* ------------------------------------------------- field name normalization
NormalizeFieldName == normalizeFieldNameCall /\ UNCHANGED <<exceptNames, isDatabase>>

InitNames == TableInit /\ PasteIdle /\ SidesIdle /\ m_layer = {} /\ historyProperty = "OFF"
             /\ fieldName \in FieldNames /\ FillIdle

NextNames == NormalizeFieldName

SpecNames == InitNames /\ [][NextNames]_vars

\* C22: field name normalization is idempotent: for every name n,
\* normalizeFieldName(normalizeFieldName(n)) equals normalizeFieldName(n).
C22_NormalizeFieldNameIdempotent ==
    Len(normalized) >= 2 => normalized[2] = normalized[1]

\* a reserved word written with a forbidden character went through twice
C22_Witness ==
    /\ Len(normalized) = 2
    /\ isDatabase
    /\ fieldName = <<"a", "s">>
    /\ normalized[1] = <<"A", "S", "_">>

\* C26: after logging any operation code other than delete-all-features, the
\* table's edit log contains no delete-all-features sentinel row.
C26_NoSentinelAfterOtherCode ==
    (/\ last.logged # NullOp
     /\ last.logged.code # CC_DELETEALL_FEATURES
     /\ last.logged.fid # NOT_FOUND)
    => \A r \in LogRows : r.code # CC_DELETEALL_FEATURES

\* the call made in this step logged code for a feature
LogsNow(code) == last'.logged.code = code /\ last'.logged.fid # NOT_FOUND

\* C27: when delete-feature is logged for feature F and the log holds no
\* create-feature entry for F, the log afterwards contains exactly one entry
\* with feature id F, and that entry is delete-feature; all earlier entries
\* for F, attachment entries included, are removed.
C27_DeleteFeatureLeavesOneEntry ==
    [][(/\ LogsNow(CC_DELETE_FEATURE)
        /\ \A r \in LogRows : ~(r.fid = last'.logged.fid /\ r.code = CC_CREATE_FEATURE))
       => FeaturesOf(m_editHistoryTable', last'.logged.fid)
            = <<[fid |-> last'.logged.fid, aid |-> NOT_FOUND, code |-> CC_DELETE_FEATURE]>>
      ]_vars

\* delete-feature was logged for a feature not created in the log, next to an
\* entry of another feature
C27_Witness ==
    /\ last.op = "deleteFeature"
    /\ last.logged.code = CC_DELETE_FEATURE
    /\ last.logged.fid # NOT_FOUND
    /\ ~last.afterCreate
    /\ FeaturesOf(m_editHistoryTable, last.fid) = <<last.logged>>
    /\ \E r \in LogRows : r.fid # last.fid

\* C28: logging change-feature for feature F appends nothing and leaves F's
\* entries unchanged when the log already holds at least one entry of any kind
\* for F; when the log holds no entry for F, it appends exactly one
\* change-feature entry for F.
C28_ChangeFeatureAppendsOnce ==
    [][LogsNow(CC_CHANGE_FEATURE)
       => LET F == last'.logged.fid
              before == FeaturesOf(m_editHistoryTable, F)
          IN IF before # << >>
             THEN /\ FeaturesOf(m_editHistoryTable', F) = before
                  /\ Len(m_editHistoryTable') <= Len(m_editHistoryTable)
             ELSE /\ FeaturesOf(m_editHistoryTable', F) = <<last'.logged>>
                  /\ m_editHistoryTable' = Append(PurgeDeleteAll(m_editHistoryTable),
                                                  last'.logged)
      ]_vars

\* change-feature was logged for a feature whose entry in the log is of another
\* kind, and the entry stayed
C28_Witness ==
    /\ last.op = "updateFeature"
    /\ last.logged.code = CC_CHANGE_FEATURE
    /\ last.logged.fid # NOT_FOUND
    /\ FeaturesOf(m_editHistoryTable, last.fid) # << >>
    /\ \A r \in LogRows : r.fid = last.fid => r.code # CC_CHANGE_FEATURE

\* C29: when delete-attachment is logged for (F, A) and the log holds no
\* create-attachment entry for (F, A), the log afterwards contains exactly one
\* entry for (F, A), with operation delete-attachment: an existing entry for
\* (F, A) is rewritten in place, otherwise a fresh entry is appended.
C29_DeleteAttachmentLeavesOneEntry ==
    [][(/\ LogsNow(CC_DELETE_ATTACHMENT)
        /\ last'.logged.aid # NOT_FOUND
        /\ \A r \in LogRows : ~(/\ r.fid = last'.logged.fid /\ r.aid = last'.logged.aid
                                  /\ r.code = CC_CREATE_ATTACHMENT))
       => LET op == last'.logged
              before == PurgeDeleteAll(m_editHistoryTable)
              i == FirstAttRow(before, op.fid, op.aid)
              after == m_editHistoryTable'
          IN /\ Cardinality({j \in 1..Len(after) :
                                after[j].fid = op.fid /\ after[j].aid = op.aid}) = 1
             /\ \A j \in 1..Len(after) :
                   (after[j].fid = op.fid /\ after[j].aid = op.aid)
                   => after[j].code = CC_DELETE_ATTACHMENT
             /\ IF i # 0 THEN after = [before EXCEPT ![i] = op]
                         ELSE after = Append(before, op)
      ]_vars

\* delete-attachment was logged for an attachment not created in the log
C29_Witness ==
    /\ last.op = "deleteAttachment"
    /\ last.logged.code = CC_DELETE_ATTACHMENT
    /\ last.logged.fid # NOT_FOUND
    /\ ~last.afterCreate
    /\ last.logged \in LogRows

\* C30: after create-attachment or change-attachment is logged for an
\* attachment of feature F, the log contains no delete-all-attachments entry
\* for F.
C30_NoDeleteAllAttachmentsAfterAttachmentEdit ==
    (/\ last.logged.code \in {CC_CREATE_ATTACHMENT, CC_CHANGE_ATTACHMENT}
     /\ last.logged.fid # NOT_FOUND)
    => \A r \in LogRows : ~(r.code = CC_DELETEALL_ATTACHMENTS /\ r.fid = last.logged.fid)

\* an attachment edit was logged for F while the delete-all-attachments entry
\* of another feature stays in the log
C30_Witness ==
    /\ last.logged.code \in {CC_CREATE_ATTACHMENT, CC_CHANGE_ATTACHMENT}
    /\ last.logged.fid # NOT_FOUND
    /\ last.logged \in LogRows
    /\ \E r \in LogRows : r.code = CC_DELETEALL_ATTACHMENTS /\ r.fid # last.logged.fid

\* ------------------------------------- feature edits, notifications, the lock
InitCrud == TableInit /\ PasteIdle /\ DatasetIdle

NextCrud ==
    \/ InsertFeature(StoreOutcomes)
    \/ UpdateFeature(StoreOutcomes)
    \/ DeleteFeature(StoreOutcomes)
    \/ DeleteFeatures(BOOLEAN)
    \/ SetSaveEditHistory
    \/ StartBatchOperation
    \/ StopBatchOperation

SpecCrud == InitCrud /\ [][NextCrud]_vars

FeatureEdits == {"insertFeature", "updateFeature", "deleteFeature"}

\* C5: in batch mode a successful insertFeature, updateFeature or deleteFeature
\* emits no change notification.
C5_NoNotificationInBatch ==
    (last.op \in FeatureEdits /\ last.batch /\ ~last.rejected)
    => last.notified = << >>

\* C6: whenever the store rejects the store call of insertFeature, updateFeature
\* or deleteFeature, the call returns false, whatever error text the store left.
C6_RejectedReturnsFalse ==
    (last.op \in FeatureEdits /\ last.rejected) => last.result = FALSE

\* C7: when insertFeature, updateFeature or deleteFeature invokes the
\* notification callback, the calling thread does not hold the SQL mutex.
C7_NotifyWithoutMutex ==
    last.op \in FeatureEdits
    => \A i \in 1..Len(last.notified) : ~last.notified[i].locked

\* ---------------------------------------------------------- paste and copyRows
\* names asked for with NEW_NAME: none given, "roads", "r:d"
NameOptions == {<< >>, <<"r", "o", "a", "d", "s">>, <<"r", ":", "d">>}

\* children that hold "roads" and its first t numbered names
Taken(t) == {"roads"} \cup {CandidateName("roads", n) : n \in 1..t}

\* the children of the destination: none, a few, or every name normalizeDatasetName tries
ChildrenSets == {{}} \cup {Taken(t) : t \in 0..MaxTaken} \cup {Taken(MAX_EQUAL_NAMES - 1)}

\* the rows of a source of type t
SourceRows(t) ==
    LET geoms == IF t = "table" THEN {"NONE"}
                 ELSE IF t = "featureclass" THEN {"POINT", "MULTIPOINT"} ELSE {}
    IN UNION {[1..n -> geoms] : n \in 0..MaxRows}

InitPaste ==
    /\ TableInit
    /\ m_layer = {}
    /\ historyProperty = "OFF"
    /\ isDatabase
    /\ pc = "idle"
    /\ srcType \in {"table", "featureclass", "raster"}
    /\ srcRows \in SourceRows(srcType)
    /\ srcExists = TRUE
    /\ dstLayers = << >>
    /\ children \in ChildrenSets
    /\ paste = NoPaste
    /\ DatasetIdle

\* newName = normalizeDatasetName(options.stringOption("NEW_NAME", ...)) opens
\* Dataset::paste in each of its three branches
PasteTable ==
    \E name \in NameOptions :
        LET newName == normalizeDatasetName(children, name)
        IN \E move \in BOOLEAN, outcome \in CreateOutcomes, startAnswer \in BOOLEAN :
              pasteTable(move, Join(name), newName, outcome, startAnswer)
              /\ UNCHANGED exceptPaste
CopyRow == \E answer \in BOOLEAN, out \in StoreOutcomes, warnAnswer \in BOOLEAN,
              destroyOk \in BOOLEAN :
              copyRow(answer, out, warnAnswer, destroyOk) /\ UNCHANGED exceptPaste
CopyRowsFinish == \E answer \in BOOLEAN, destroyOk \in BOOLEAN :
              copyRowsFinish(answer, destroyOk) /\ UNCHANGED exceptPaste
PasteFeatureClass ==
    \E name \in NameOptions, filter \in {"ANY", "POINT", "MULTIPOINT"} :
        LET newName == normalizeDatasetName(children, name)
            \* the geometry types the loop creates a layer for
            used == {g \in {"POINT", "MULTIPOINT"} :
                        /\ \E i \in 1..Len(srcRows) : srcRows[i] = g
                        /\ filter \in {g, "ANY"}}
        IN \E move \in BOOLEAN, toMulti \in BOOLEAN, create \in [used -> CreateOutcomes],
              copy \in [used -> {COD_SUCCESS, COD_CANCELED}], destroyOk \in BOOLEAN :
              pasteFeatureClass(move, Join(name), newName, filter, toMulti, create, copy,
                                destroyOk)
              /\ UNCHANGED exceptPaste
PasteUnsupported ==
    \E name \in NameOptions :
        LET newName == normalizeDatasetName(children, name)
        IN \E move \in BOOLEAN : pasteUnsupported(move, Join(name), newName)
                                  /\ UNCHANGED exceptPaste

NextPaste ==
    \/ PasteTable
    \/ CopyRow
    \/ CopyRowsFinish
    \/ PasteFeatureClass
    \/ PasteUnsupported

SpecPaste == InitPaste /\ [][NextPaste]_vars

\* the source rows copyRows has inserted, as its events tell
InsertedRows ==
    LET took == SelectSeq(paste.events, LAMBDA e : e.kind = "insert" /\ e.answer)
    IN [k \in 1..Len(took) |-> took[k].row]

\* C8 as stated: if the progress callback declines to continue during copyRows,
\* copyRows stops at once and returns the canceled result; the rows inserted
\* before remain in the destination and no further source row is inserted.
C8_AnyDeclineCancels ==
    (srcType = "table" /\ paste.events # << >>)
    => /\ \A i \in 1..Len(paste.events) :
             (paste.events[i].kind = "progress" /\ ~paste.events[i].answer)
             => (i = Len(paste.events) /\ pc = "done" /\ paste.steps = <<COD_CANCELED>>)
       /\ dstLayers[paste.dst] = InsertedRows

\* C8 amended: if the progress callback declines a report made for a row (the
\* in-process report before the row is copied, or the warning after the store
\* rejected the row), copyRows stops at once and returns the canceled result;
\* the rows inserted before remain in the destination and no further source
\* row is inserted.
C8_RowDeclineCancels ==
    (srcType = "table" /\ paste.events # << >>)
    => /\ \A i \in 1..Len(paste.events) :
             (/\ paste.events[i].kind = "progress"
              /\ paste.events[i].at = "row"
              /\ ~paste.events[i].answer)
             => (i = Len(paste.events) /\ pc = "done" /\ paste.steps = <<COD_CANCELED>>)
       /\ dstLayers[paste.dst] = InsertedRows

\* copyRows was canceled with a row already copied and a row still to copy
C8_Witness ==
    /\ pc = "done"
    /\ srcType = "table"
    /\ paste.steps = <<COD_CANCELED>>
    /\ dstLayers[paste.dst] # << >>
    /\ paste.cursor <= Len(srcRows)

C11_MixedPasteMakesOneMultiLayer ==
    (/\ paste.op = "paste" /\ srcType = "featureclass"
     /\ pc = "done" /\ paste.result = COD_SUCCESS
     /\ Len(geometryTypes(srcRows)) = 2
     /\ paste.toMulti /\ paste.filter = "ANY"
     /\ children = {"roads"} /\ paste.newName = "roads_1")
    => /\ paste.created = {"roads_1"}
       /\ paste.types = {<<"roads_1", "MULTIPOINT">>}
       /\ "roads_1" \in DOMAIN dstLayers
       /\ Len(dstLayers["roads_1"]) = Len(srcRows)

\* the reports copyRows made to the progress callback before copying a row
RowReports == SelectSeq(paste.events, LAMBDA e : e.kind = "progress" /\ e.at = "row"
                                                 /\ e.code = COD_IN_PROCESS)

\* a paste with NEW_NAME given has returned success
PasteSucceeded ==
    /\ paste.op = "paste" /\ pc = "done"
    /\ paste.result = COD_SUCCESS
    /\ paste.asked # ""

FillPoints ==
    /\ fillStyle.type = "ST_POINT"
    /\ filled' = [op |-> "fillPoints", out |-> fillPoints(fillTile, m_hideFIDs),
                  selection |-> << >>, crashed |-> FALSE]
    /\ UNCHANGED <<exceptFill, fillTile, m_hideFIDs, m_selectedFIDs, fillStyle>>

FillLines ==
    /\ fillStyle.type = "ST_LINE"
    /\ filled' = [op |-> "fillLines", out |-> fillLines(fillTile, m_hideFIDs, fillStyle),
                  selection |-> << >>, crashed |-> FALSE]
    /\ UNCHANGED <<exceptFill, fillTile, m_hideFIDs, m_selectedFIDs, fillStyle>>

FillPolygons ==
    /\ fillStyle.type = "ST_FILL"
    /\ filled' = [op |-> "fillPolygons", out |-> fillPolygons(fillTile, m_hideFIDs, fillStyle),
                  selection |-> << >>, crashed |-> FALSE]
    /\ UNCHANGED <<exceptFill, fillTile, m_hideFIDs, m_selectedFIDs, fillStyle>>

SelectableFillPoints ==
    /\ fillStyle.type = "ST_POINT"
    /\ filled' = selectableFillPoints(fillTile, m_hideFIDs, m_selectedFIDs)
    /\ UNCHANGED <<exceptFill, fillTile, m_hideFIDs, m_selectedFIDs, fillStyle>>

SelectableFillLines ==
    /\ fillStyle.type = "ST_LINE"
    /\ filled' = selectableFillLines(fillTile, m_hideFIDs, m_selectedFIDs, fillStyle)
    /\ UNCHANGED <<exceptFill, fillTile, m_hideFIDs, m_selectedFIDs, fillStyle>>

\* the dereferenced null pointer ends the process or lets the call go on
SelectableFillPolygons ==
    /\ fillStyle.type = "ST_FILL"
    /\ \/ filled' = selectableFillPolygons(fillTile, m_hideFIDs, m_selectedFIDs, fillStyle)
       \/ /\ castIsNull(fillStyle)
          /\ filled' = [op |-> "selectableFillPolygons", out |-> << >>,
                        selection |-> << >>, crashed |-> TRUE]
    /\ UNCHANGED <<exceptFill, fillTile, m_hideFIDs, m_selectedFIDs, fillStyle>>

InitFill ==
    /\ TableInit /\ PasteIdle /\ SidesIdle /\ m_layer = {} /\ historyProperty = "OFF"
    /\ fieldName = << >>
    /\ fillTile \in VectorTiles
    /\ m_hideFIDs \in SUBSET (1..MaxItems)
    /\ m_selectedFIDs \in SUBSET (1..MaxItems)
    /\ fillStyle \in FillStyles

NextFill == \/ FillPoints \/ FillLines \/ FillPolygons
            \/ SelectableFillPoints \/ SelectableFillLines \/ SelectableFillPolygons

SpecFill == InitFill /\ [][NextFill]_vars

EmissionKinds(buffer) == [j \in 1..Len(buffer.ems) |-> buffer.ems[j].kind]

\* the tile holds one open line of three points, not hidden, and the style has
\* square caps and bevelled joins
SquareBevelLineOfThree ==
    /\ filled.op = "fillLines"
    /\ Len(fillTile) = 1 /\ fillTile[1].n = 3 /\ ~fillTile[1].closed
    /\ ~isIdsPresent(fillTile[1], m_hideFIDs)
    /\ fillStyle.cap = "CT_SQUARE" /\ fillStyle.join = "JT_BEVELED"

\* C31 as stated: filling a tile whose geometry is a single open line of 3
\* points with CT_SQUARE caps and JT_BEVELED joins emits into the line buffer
\* exactly 2 caps, then 1 join, then 2 segments, in that order.
C31_CapsJoinSegmentsInOrder ==
    SquareBevelLineOfThree =>
        /\ Len(filled.out) = 1
        /\ EmissionKinds(filled.out[1]) = <<"cap", "cap", "join", "segment", "segment">>

\* C31, amended: the line buffer receives 2 caps, 1 join and 2 segments, in the
\* order of the loop over the point pairs: start cap, first segment, end cap,
\* join, second segment.
C31_CapsJoinSegmentsInLoopOrder ==
    SquareBevelLineOfThree =>
        /\ Len(filled.out) = 1
        /\ EmissionKinds(filled.out[1]) = <<"cap", "segment", "cap", "join", "segment">>

C31_Witness ==
    /\ SquareBevelLineOfThree
    /\ Len(filled.out[1].ems) = 5

RECURSIVE SumUnits(_)
SumUnits(buffers) ==
    IF buffers = << >> THEN 0 ELSE Head(buffers).units + SumUnits(Tail(buffers))

\* the vertices the fill function called last would store for the item alone
VerticesOf(item) ==
    CASE filled.op = "fillPoints" -> SumUnits(fillPoints(<<item>>, {}))
      [] filled.op = "fillLines" -> SumUnits(fillLines(<<item>>, {}, fillStyle))
      [] OTHER -> item.n * 3

IndicesOf(item) == IF filled.op = "fillPolygons" /\ item.n >= 3 THEN Len(indices(item)) ELSE 0

ExceedsCeiling(item) ==
    \/ VerticesOf(item) > maxVertices
    \/ IndicesOf(item) > maxIndices
    \/ filled.op = "fillPolygons" /\ (item.n > maxVertices \/ item.n > maxIndices)

\* something of the item is in the buffer
Appears(item, buffer) ==
    \/ \E j \in 1..Len(buffer.ems) : buffer.ems[j].fid = item.fid
    \/ \E j \in 1..Len(buffer.pts) : buffer.pts[j].fid = item.fid
    \/ \E j \in 1..Len(buffer.idx) : buffer.idx[j].fid = item.fid

\* C33: in point, line and polygon fill alike, a single geometry whose vertex
\* or index count exceeds the per-buffer ceiling is skipped entirely: none of
\* its vertices or indices appear in any buffer produced for the tile.
C33_OversizeGeometrySkipped ==
    filled.op \in {"fillPoints", "fillLines", "fillPolygons"} =>
        \A k \in 1..Len(fillTile) :
            ExceedsCeiling(fillTile[k]) =>
                \A b \in 1..Len(filled.out) : ~Appears(fillTile[k], filled.out[b])

\* a polygon with more points than the index ceiling was skipped
C33_SkippedPolygon ==
    /\ filled.op = "fillPolygons"
    /\ \E k \in 1..Len(fillTile) :
          /\ fillTile[k].n > maxIndices
          /\ ~isIdsPresent(fillTile[k], m_hideFIDs)
          /\ \A b \in 1..Len(filled.out) : ~Appears(fillTile[k], filled.out[b])

\* what the base layer returns for the tile and the style
BaseOutput ==
    CASE filled.op = "selectableFillPoints" -> fillPoints(fillTile, m_hideFIDs)
      [] filled.op = "selectableFillLines" -> fillLines(fillTile, m_hideFIDs, fillStyle)
      [] OTHER -> fillPolygons(fillTile, m_hideFIDs, fillStyle)

SelectableOps == {"selectableFillPoints", "selectableFillLines", "selectableFillPolygons"}

\* C34: the selectable layer tessellates identically to the base layer: for
\* the same tile and style with an empty selected-id set, its draw buffer set
\* has the same buffer boundaries, vertices and indices as the base layer's
\* output, and every item in the selected-id set is emitted only into the
\* select buffer set.
C34_SelectableTessellatesAsBase ==
    filled.op \in SelectableOps =>
        /\ ~filled.crashed
        /\ m_selectedFIDs = {} => filled.out = BaseOutput
        /\ \A k \in 1..Len(fillTile) :
              isIdsPresent(fillTile[k], m_selectedFIDs) =>
                  \A b \in 1..Len(filled.out) : ~Appears(fillTile[k], filled.out[b])

\* every index of the buffer refers to a point of the polygon it was emitted for
IndicesWithinPolygon(buffer) ==
    \A j \in 1..Len(buffer.idx) :
        /\ buffer.idx[j].at + 1 <= Len(buffer.pts)
        /\ buffer.pts[buffer.idx[j].at + 1].fid = buffer.idx[j].fid

\* C39: in every fill buffer produced by polygon fill, each index emitted for
\* a polygon refers to a vertex of that same polygon: the index base of a
\* polygon equals the number of vertices already in the buffer, for any number
\* of polygons sharing one buffer.
C39_IndexRefersToOwnPolygon ==
    filled.op \in {"fillPolygons", "selectableFillPolygons"} /\ ~filled.crashed =>
        /\ \A b \in 1..Len(filled.out) : IndicesWithinPolygon(filled.out[b])
        /\ \A b \in 1..Len(filled.selection) : IndicesWithinPolygon(filled.selection[b])

\* ------------------------------------- table operations of concurrent threads
TableOpEnter == \E t \in Threads, op \in TableOps, layerNull \in BOOLEAN :
                    tableOpEnter(t, op, layerNull) /\ UNCHANGED <<exceptLocksSql, m_DS, sqlThreads>>
FeatureMutexAcquire == \E t \in Threads :
                    featureMutexAcquire(t) /\ UNCHANGED <<exceptLocksSql, m_DS, sqlThreads>>
LockExecuteSqlAcquire == \E t \in Threads :
                    lockExecuteSqlAcquire(t) /\ UNCHANGED <<exceptLocksSql, m_DS, sqlThreads>>
LockExecuteSqlTimeout == \E t \in Threads :
                    lockExecuteSqlTimeout(t) /\ UNCHANGED <<exceptLocksSql, m_DS, sqlThreads>>
TableOpReturn == \E t \in Threads :
                    tableOpReturn(t) /\ UNCHANGED <<exceptLocksSql, m_DS, sqlThreads>>

InitLocks ==
    /\ TableInit /\ PasteIdle /\ DatasetIdle /\ m_layer = {} /\ historyProperty = "OFF"

NextLocks ==
    \/ TableOpEnter
    \/ FeatureMutexAcquire
    \/ LockExecuteSqlAcquire
    \/ LockExecuteSqlTimeout
    \/ TableOpReturn

SpecLocks == InitLocks /\ [][NextLocks]_vars

InStore(t, ops) == lockThreads[t].pc = "store" /\ lockThreads[t].op \in ops

\* C32: the dataset SQL mutex serializes store access: at no time are two
\* threads both executing a store call that is guarded by the mutex (through
\* the RAII holder or through lockExecuteSql), however long one thread keeps
\* hold of it.
C32_SqlMutexSerializes ==
    \A t1, t2 \in Threads :
        (t1 # t2 /\ InStore(t1, SqlGuardedOps)) => ~InStore(t2, SqlGuardedOps)

\* C37: a feature read on a table (getFeature, nextFeature, featureCount)
\* never runs concurrently with a feature write on the same table
\* (insertFeature, updateFeature, deleteFeature): reads and writes of one
\* table's layer exclude each other.
C37_ReadsExcludeWrites ==
    \A t1, t2 \in Threads :
        (t1 # t2 /\ InStore(t1, ReadOps)) => ~InStore(t2, WriteOps)

\* ------------------------------------------------------------------ MapStore
CreateMap == createMap /\ UNCHANGED exceptMaps

\* the file is null or does not open, holds a map of its own, or holds the map
\* of the first or the last slot of the store
OpenMap == \E map \in {0, nextMap} \cup {MapAt(m_maps, i) :
                                           i \in {1, Len(m_maps) - 1} \cap (1..(Len(m_maps) - 1))} :
               openMap(map) /\ UNCHANGED exceptMaps

CloseMap == \E mapId \in {1, UCHAR_MAX - 1, UCHAR_MAX}, closed \in BOOLEAN :
                closeMap(mapId, closed) /\ UNCHANGED exceptMaps

\* numbers of maps a store holds after a run of createMap and openMap calls
MapCounts == {0, 1, UCHAR_MAX - 1, UCHAR_MAX}

InitMaps ==
    /\ TableInit /\ PasteIdle /\ RefreshIdle /\ PropsIdle /\ SqlInit /\ FilesInit /\ SideInit
    /\ TilesInit /\ normalized = << >> /\ filled = NoFill /\ LocksIdle
    /\ fieldName = << >> /\ FillIdle /\ m_layer = {} /\ historyProperty = "OFF"
    /\ \E n \in MapCounts :
          /\ m_maps = <<0>> \o [i \in 1..n |-> i]
          /\ nextMap = n + 1
    /\ mapCalls = 0
    /\ mapCall = NoMapCall

NextMaps == CreateMap \/ OpenMap \/ CloseMap

SpecMaps == InitMaps /\ [][NextMaps]_vars

\* C40: after any sequence of createMap, openMap and closeMap calls, every id
\* returned as a success is non-zero and getMap(id) returns exactly the map
\* that call registered; no two open maps share an id, also when 255 or more
\* map slots are in use.
C40_IdsResolveToTheirMaps ==
    /\ (mapCall.op \in {"createMap", "openMap"} /\ mapCall.id # INVALID_MAPID) =>
           getMap(mapCall.id) = mapCall.map
    /\ \A i, j \in 1..(Len(m_maps) - 1) :
           (i # j /\ MapAt(m_maps, i) # 0 /\ MapAt(m_maps, j) # 0) =>
               toUnsignedChar(i) # toUnsignedChar(j)

\* C10: if name normalization exhausts its 10000 attempts, creation through
\* paste fails with an error result and no table or layer is created in the
\* destination store.
C10_ExhaustionCreatesNothing ==
    (paste.op = "paste" /\ paste.exhausted)
    => /\ paste.created = {}
       /\ pc = "done"
       /\ paste.result \notin {COD_SUCCESS, COD_CANCELED}

====
